---------------------------- MODULE Spec2Model ----------------------------
(***************************************************************************)
(* A model of the PETLIBRO integration's session, API cache, device merge  *)
(* and hub refresh code (custom_components/petlibro).                      *)
(*                                                                         *)
(* Fifteen specifications share this module, one per state machine:        *)
(*   SpecSession  PetLibroSession.request / re_login        (api.py)       *)
(*   SpecPair     two calls on one session, login, logout   (api.py)       *)
(*   SpecMerge    Device.update_data                        (device.py)    *)
(*   SpecCache    PetLibroAPI.get_device_* cached fetches   (api.py)       *)
(*   SpecLoad     PetLibroHub.load_devices                  (hub.py)       *)
(*   SpecHub      PetLibroHub.refresh_devices               (hub.py)       *)
(*   SpecSerial   refresh with payloads carrying deviceSn   (device.py)    *)
(*   SpecCancel   refresh cancelled at a suspension point   (device.py)    *)
(*   SpecSetup    async_setup_entry and the coordinator     (__init__.py)  *)
(*   SpecProps    the devices' derived properties           (devices/)     *)
(*   SpecSensor   the feeding-quantity sensor               (sensor.py)    *)
(*   SpecCommand  the devices' command methods              (devices/)     *)
(*   SpecPress    button presses as time passes             (button.py)    *)
(*   SpecOverlap  two overlapping cached fetches            (api.py)       *)
(*   SpecRefreshing  two overlapping refreshes of a device  (device.py)    *)
(* A specification leaves the variables of the other machines unchanged.   *)
(***************************************************************************)
EXTENDS Integers, Sequences, FiniteSets, TLC

(***************************************************************************)
(* Bounds                                                                  *)
(***************************************************************************)
\* concurrent calls of PetLibroSession.request on one session
MaxReqs == 1
\* distinct tokens the vendor hands out
MaxToken == 2
\* distinct data payloads a response can carry
MaxPayload == 2
\* distinct scalar values a raw-state field can take
MaxScalar == 2
\* the clock stops at MaxTime seconds
MaxTime == 11
\* entries in one device-list response
MaxList == 2
\* the largest raw todayFeedingQuantity the vendor reports
MaxQuantity == 2366

(***************************************************************************)
(* Program constants                                                       *)
(***************************************************************************)
\* api.py:106  envelope code of a successful response
CODE_OK == 0
\* api.py:93   NOT_YET_LOGIN
NOT_YET_LOGIN == 1009
\* the vendor's credential-rejection code; api.py has no branch for it, so
\* request treats it like every other non-zero code
INVALID_AUTH == 1102
\* some other non-zero application code
OTHER_CODE == 500
\* api.py:90   the only HTTP status request accepts
HTTP_OK == 200
\* an HTTP status other than 200
HTTP_ERROR == 500
\* api.py:238, 264, 289  timedelta(seconds=10), the cache window
WINDOW_SECONDS == 10
\* hub.py:148  timedelta(seconds=10), the debounce interval
DEBOUNCE_SECONDS == 10

Codes == {CODE_OK, NOT_YET_LOGIN, INVALID_AUTH, OTHER_CODE}
Statuses == {HTTP_OK, HTTP_ERROR}

(***************************************************************************)
(* State                                                                   *)
(***************************************************************************)
VARIABLES
    token,      \* PetLibroSession.token (NoToken models None)
    req,        \* the calls of PetLibroSession.request, by call slot
    data,       \* Device._data, the raw state of one device
    lastFrag,   \* history: the argument of the last update_data call
    now,        \* datetime.utcnow(), in seconds
    times,      \* PetLibroAPI._last_api_call_times
    cached,     \* PetLibroAPI._cached_responses
    fetch,      \* the cached fetch in progress, if any
    lastOk,     \* history: start time and data of the last successful fetch, by key
    lastCall,   \* history: the last cached fetch that was started
    inflight,   \* the calls of a cached fetch method, by caller
    hub,        \* PetLibroHub: devices, loaded_device_sn, last_refresh_times
    lastList,   \* history: the response of the last load_devices call
    same,       \* history: that response equalled the one of the call before
    round,      \* the refresh_devices call in progress or last finished
    config_entry, \* ConfigEntry.data of the hub's config entry, by key
    setup,      \* the call of async_setup_entry: position, result, loads made
    read,       \* the last read of a derived property of a device
    emitted,    \* history: the EVENT_UPDATE emissions of the last update_data call
    refreshing, \* the refresh calls running on one device, and the order of their fetches
    cmd         \* the last command method called on a device of the hub

sessVars == <<token, req, config_entry>>
mergeVars == <<data, lastFrag, read, emitted, refreshing>>
cacheVars == <<times, cached, fetch, lastOk, lastCall, inflight>>
hubVars == <<hub, lastList, same, round, setup, cmd>>
vars == <<token, req, data, lastFrag, now, times, cached, fetch, lastOk, lastCall, inflight,
          hub, lastList, same, round, config_entry, setup, read, cmd, emitted, refreshing>>

(***************************************************************************)
(* PetLibroSession (api.py:29-163)                                         *)
(***************************************************************************)
Reqs == 1..MaxReqs
NoToken == 0
Tokens == 1..MaxToken
Payloads == 1..MaxPayload
\* retry_data.get("data") / data.get("data") of a body without a payload
NoData == 0

\* What the transport hands back for one send: a connection error, or an
\* HTTP response with a status and a body that either parses as the
\* {code, msg, data} envelope or does not parse.
NoResp == [kind |-> "none", status |-> 0, json |-> FALSE, code |-> 0, data |-> NoData]
TransportError == [kind |-> "transport", status |-> 0, json |-> FALSE, code |-> 0, data |-> NoData]
Responses ==
    {TransportError}
    \cup {[kind |-> "http", status |-> s, json |-> FALSE, code |-> 0, data |-> NoData] : s \in Statuses}
    \cup [kind : {"http"}, status : {HTTP_OK}, json : {TRUE}, code : Codes,
           data : Payloads \cup {NoData}]
    \cup [kind : {"http"}, status : Statuses \ {HTTP_OK}, json : {TRUE},
           code : {CODE_OK, OTHER_CODE}, data : {MaxPayload}]

\* What the transport hands back for the login POST of re_login.
LoginTransportError == [kind |-> "transport", status |-> 0, json |-> FALSE, hasToken |-> FALSE, token |-> NoToken]
LoginResponses ==
    {LoginTransportError}
    \cup {[kind |-> "http", status |-> s, json |-> FALSE, hasToken |-> FALSE, token |-> NoToken] : s \in Statuses}
    \cup {[kind |-> "http", status |-> s, json |-> TRUE, hasToken |-> FALSE, token |-> NoToken] : s \in Statuses}
    \cup [kind : {"http"}, status : Statuses, json : {TRUE}, hasToken : {TRUE}, token : Tokens]

\* How a call of request ends.
NoResult == [kind |-> "none", exc |-> "none", data |-> NoData]
Return(d) == [kind |-> "return", exc |-> "none", data |-> d]
Raise(e) == [kind |-> "raise", exc |-> e, data |-> NoData]

\* op is the method of PetLibroAPI that called request ("call" for any
\* method that hands the result on), tok0 the session token when it was
\* called and opResult how that method ends
IdleReq ==
    [pc |-> "idle", hdr |-> NoToken, sends |-> 0, logins |-> 0,
     first |-> NoResp, login |-> FALSE, retry |-> NoResp, result |-> NoResult,
     op |-> "call", tok0 |-> NoToken, opResult |-> NoResult]

\* re_login succeeds exactly when the status is 200, the body parses and
\* data holds a token (api.py:134-141); every failure is re-raised as
\* PetLibroAPIError (api.py:157-163).
LoginSucceeds(l) ==
    /\ l.kind = "http"
    /\ l.status = HTTP_OK
    /\ l.json
    /\ l.hasToken

\* The first response, api.py:81-109: what request does once it arrives.
\* "relogin" stands for the branch that awaits re_login.
FirstStep(resp) ==
    IF resp.kind = "transport" THEN Raise("ClientError")
    ELSE IF ~resp.json THEN Raise("PetLibroAPIError")
    ELSE IF resp.status # HTTP_OK THEN Raise("PetLibroAPIError")
    ELSE IF resp.code = NOT_YET_LOGIN THEN [kind |-> "relogin", exc |-> "none", data |-> NoData]
    ELSE IF resp.code # CODE_OK THEN Raise("PetLibroAPIError")
    ELSE Return(resp.data)

\* The retried response, api.py:101-104: returned unconditionally.
RetryStep(resp) ==
    IF resp.kind = "transport" THEN Raise("ClientError")
    ELSE IF ~resp.json THEN Raise("JSONDecodeError")
    ELSE Return(resp.data)

\* the key the hub reads its token from (const.py:8, hub.py:58) and the
\* key re_login saves it under (api.py:152)
CONF_API_TOKEN == "api_token"
TOKEN_KEY == "token"
\* the config entry data of a hub whose stored token is tok (NoToken: none)
EntryFor(tok) == [k \in {CONF_API_TOKEN} |-> tok]
\* data.get(CONF_API_TOKEN), the token the hub hands to its session when
\* it is constructed (hub.py:52-59)
HubStartToken(e) == IF CONF_API_TOKEN \in DOMAIN e THEN e[CONF_API_TOKEN] ELSE NoToken
\* the PetLibroAPI the hub constructs: neither config_entry nor hass is
\* passed, so both keep their default None (hub.py:52-59, api.py:174-183)
HubApi == [hass |-> FALSE, config_entry |-> FALSE]
\* the config entry once re_login has stored tok as the session token
\* (api.py:148-153): saved only when the API holds hass and a config entry
EntryAfterRelogin(api, e, tok) ==
    IF api.hass /\ api.config_entry
    THEN [k \in DOMAIN e \cup {TOKEN_KEY} |-> IF k = TOKEN_KEY THEN tok ELSE e[k]]
    ELSE e

\* the session as PetLibroHub.__init__ constructs it: its token is the one
\* stored in the config entry (hub.py:52-59, api.py:32-44)
InitSession ==
    /\ token \in {NoToken} \cup Tokens
    /\ req = [r \in Reqs |-> IdleReq]
    /\ config_entry = EntryFor(token)

\* data of a login response holds a string token (api.py:220): a payload
\* p stands for {"token": p}, NoData for a body without one
HasToken(d) == d \in Tokens

\* how the calling method ends once request has ended with step:
\* login (api.py:205-230) returns the token or wraps every failure in
\* PetLibroAPIError; logout (api.py:308-312) and the other methods hand on
\* what request returned or raised
OpOutcome(o, step) ==
    IF o = "login"
    THEN IF step.kind = "return" /\ HasToken(step.data)
         THEN Return(step.data)
         ELSE Raise("PetLibroAPIError")
    ELSE step

\* mutant: login stores the token on the PetLibroAPI object, not on the session
TokenAfter_ApiOnly(o, step, tok) ==
    IF o = "logout" /\ step.kind = "return" THEN NoToken ELSE tok

\* the session token once the calling method has ended: login stores the
\* new token (api.py:224), logout clears it (api.py:311)
TokenAfter(o, step, tok) ==
    IF o = "login" /\ step.kind = "return" /\ HasToken(step.data) THEN step.data
    ELSE IF o = "logout" /\ step.kind = "return" THEN NoToken
    ELSE tok

\* request is called by method o: headers are built from the current token
\* and the request is sent (api.py:58-81).
Start(r, o) ==
    /\ req[r].pc \in {"idle", "done"}
    /\ req' = [req EXCEPT ![r] = [IdleReq EXCEPT !.pc = "await_first",
                                                 !.hdr = token,
                                                 !.sends = 1,
                                                 !.op = o,
                                                 !.tok0 = token]]
    /\ UNCHANGED <<token, config_entry, now, mergeVars, cacheVars, hubVars>>

\* any method that posts and returns the data (api.py:46-56, 314-337)
Call(r) == Start(r, "call")
\* PetLibroAPI.login (api.py:201-218)
login(r) == Start(r, "login")
\* PetLibroAPI.logout (api.py:308-310)
logout(r) == Start(r, "logout")

\* The first response arrives (api.py:81-109).
RecvFirst(r) ==
    /\ req[r].pc = "await_first"
    /\ \E resp \in Responses :
        LET step == FirstStep(resp) IN
        IF step.kind = "relogin"
        THEN /\ req' = [req EXCEPT ![r].pc = "await_login",
                                   ![r].first = resp,
                                   ![r].logins = @ + 1]
             /\ UNCHANGED token
        ELSE /\ req' = [req EXCEPT ![r].pc = "done",
                                   ![r].first = resp,
                                   ![r].result = step,
                                   ![r].opResult = OpOutcome(req[r].op, step)]
             /\ token' = TokenAfter(req[r].op, step, token)
    /\ UNCHANGED <<config_entry, now, mergeVars, cacheVars, hubVars>>

\* mutant: the retry keeps the header the first send was made with
RecvLogin_KeepHeader(r) ==
    /\ req[r].pc = "await_login"
    /\ \E l \in LoginResponses :
        IF LoginSucceeds(l)
        THEN /\ token' = l.token
             /\ config_entry' = EntryAfterRelogin(HubApi, config_entry, l.token)
             /\ req' = [req EXCEPT ![r].pc = "await_retry",
                                   ![r].login = TRUE,
                                   ![r].sends = @ + 1]
        ELSE /\ req' = [req EXCEPT ![r].pc = "done",
                                   ![r].result = Raise("PetLibroAPIError"),
                                   ![r].opResult = Raise("PetLibroAPIError")]
             /\ UNCHANGED <<token, config_entry>>
    /\ UNCHANGED <<now, mergeVars, cacheVars, hubVars>>

\* mutant: re_login stores the token of the body before it looks at the status
RecvLogin_EarlyStore(r) ==
    /\ req[r].pc = "await_login"
    /\ \E l \in LoginResponses :
        /\ token' = IF l.hasToken THEN l.token ELSE token
        /\ config_entry' = IF LoginSucceeds(l)
                    THEN EntryAfterRelogin(HubApi, config_entry, l.token) ELSE config_entry
        /\ IF LoginSucceeds(l)
           THEN req' = [req EXCEPT ![r].pc = "await_retry",
                                   ![r].login = TRUE,
                                   ![r].hdr = l.token,
                                   ![r].sends = @ + 1]
           ELSE req' = [req EXCEPT ![r].pc = "done",
                                   ![r].result = Raise("PetLibroAPIError"),
                                   ![r].opResult = Raise("PetLibroAPIError")]
    /\ UNCHANGED <<now, mergeVars, cacheVars, hubVars>>

\* The login response of re_login arrives (api.py:111-163, 96-101): on
\* success the token is stored and the retry is sent with it; on failure
\* PetLibroAPIError leaves request and, unchanged, the calling method.
RecvLogin(r) ==
    /\ req[r].pc = "await_login"
    /\ \E l \in LoginResponses :
        IF LoginSucceeds(l)
        THEN /\ token' = l.token
             /\ config_entry' = EntryAfterRelogin(HubApi, config_entry, l.token)
             /\ req' = [req EXCEPT ![r].pc = "await_retry",
                                   ![r].login = TRUE,
                                   ![r].hdr = l.token,
                                   ![r].sends = @ + 1]
        ELSE /\ req' = [req EXCEPT ![r].pc = "done",
                                   ![r].result = Raise("PetLibroAPIError"),
                                   ![r].opResult = Raise("PetLibroAPIError")]
             /\ UNCHANGED <<token, config_entry>>
    /\ UNCHANGED <<now, mergeVars, cacheVars, hubVars>>

\* mutant: a retry answered with NOT_YET_LOGIN logs in and retries again
RecvRetry_Loop(r) ==
    /\ req[r].pc = "await_retry"
    /\ \E resp \in Responses :
        IF resp.kind = "http" /\ resp.json /\ resp.code = NOT_YET_LOGIN
        THEN /\ req' = [req EXCEPT ![r].pc = "await_login",
                                   ![r].retry = resp,
                                   ![r].logins = @ + 1]
             /\ UNCHANGED token
        ELSE /\ req' = [req EXCEPT ![r].pc = "done",
                                   ![r].retry = resp,
                                   ![r].result = RetryStep(resp),
                                   ![r].opResult = OpOutcome(req[r].op, RetryStep(resp))]
             /\ token' = TokenAfter(req[r].op, RetryStep(resp), token)
    /\ UNCHANGED <<config_entry, now, mergeVars, cacheVars, hubVars>>

\* The response to the retried request arrives (api.py:101-104).
RecvRetry(r) ==
    /\ req[r].pc = "await_retry"
    /\ \E resp \in Responses :
        /\ req' = [req EXCEPT ![r].pc = "done",
                              ![r].retry = resp,
                              ![r].result = RetryStep(resp),
                              ![r].opResult = OpOutcome(req[r].op, RetryStep(resp))]
        /\ token' = TokenAfter(req[r].op, RetryStep(resp), token)
    /\ UNCHANGED <<config_entry, now, mergeVars, cacheVars, hubVars>>

(***************************************************************************)
(* Derived properties (devices/device.py:58-84, one_rfid_smart_feeder.py,  *)
(* polar_wet_food_feeder.py)                                               *)
(***************************************************************************)
\* Python values: t is the type, s the text of a str, n the number of an
\* int or bool, the tenths of a float, the length of a list
PyNone == [t |-> "NoneType", s |-> "", n |-> 0]
PyBool(b) == [t |-> "bool", s |-> "", n |-> IF b THEN 1 ELSE 0]
PyInt(i) == [t |-> "int", s |-> "", n |-> i]
PyFloat(tenths) == [t |-> "float", s |-> "", n |-> tenths]
PyStr(str) == [t |-> "str", s |-> str, n |-> 0]
PyList == [t |-> "list", s |-> "", n |-> 0]
\* bool(x)
Truthy(x) ==
    CASE x.t = "NoneType" -> FALSE
      [] x.t = "str" -> x.s # ""
      [] OTHER -> x.n # 0

\* one property: the class and line that define it, the key it reads
\* (under the mapping outer, or at top level when outer is ""), the type
\* it is annotated with, the type of the value the vendor sends, the
\* default of its get call and what it does with the value read
Property(cls, name, line, outer, key, kind, raw, default, via) ==
    [cls |-> cls, name |-> name, line |-> line, outer |-> outer, key |-> key,
     kind |-> kind, raw |-> raw, default |-> default, via |-> via]

\* the properties that read the raw state; of the two definitions of
\* child_lock_switch in OneRFIDSmartFeeder the later one is in effect
Properties ==
    {
     Property("Device", "serial", 59, "", "deviceSn", "str", "str", PyNone, "get"),
     Property("Device", "model", 63, "", "productIdentifier", "str", "str", PyNone, "get"),
     Property("Device", "model_name", 67, "", "productName", "str", "str", PyNone, "get"),
     Property("Device", "name", 71, "", "name", "str", "str", PyNone, "get"),
     Property("Device", "mac", 75, "", "mac", "str", "str", PyNone, "get"),
     Property("Device", "software_version", 79, "", "softwareVersion", "str", "str", PyNone, "get"),
     Property("Device", "hardware_version", 83, "", "hardwareVersion", "str", "str", PyNone, "get"),
     Property("OneRFIDSmartFeeder", "today_feeding_quantities", 38, "grainStatus", "todayFeedingQuantities", "list", "list", PyList, "get"),
     Property("OneRFIDSmartFeeder", "today_feeding_quantity", 42, "grainStatus", "todayFeedingQuantity", "int", "int", PyInt(0), "get"),
     Property("OneRFIDSmartFeeder", "today_feeding_times", 46, "grainStatus", "todayFeedingTimes", "int", "int", PyInt(0), "get"),
     Property("OneRFIDSmartFeeder", "today_eating_times", 50, "grainStatus", "todayEatingTimes", "int", "int", PyInt(0), "get"),
     Property("OneRFIDSmartFeeder", "today_eating_time", 54, "grainStatus", "petEatingTime", "int", "int", PyInt(0), "get"),
     Property("OneRFIDSmartFeeder", "feeding_plan_state", 58, "", "enableFeedingPlan", "bool", "bool", PyBool(FALSE), "bool"),
     Property("OneRFIDSmartFeeder", "battery_state", 63, "realInfo", "batteryState", "str", "str", PyStr("unknown"), "get"),
     Property("OneRFIDSmartFeeder", "door_state", 67, "realInfo", "barnDoorState", "bool", "bool", PyBool(FALSE), "bool"),
     Property("OneRFIDSmartFeeder", "food_dispenser_state", 71, "realInfo", "grainOutletState", "bool", "bool", PyBool(TRUE), "not"),
     Property("OneRFIDSmartFeeder", "door_blocked", 75, "realInfo", "barnDoorError", "bool", "bool", PyBool(FALSE), "bool"),
     Property("OneRFIDSmartFeeder", "food_low", 79, "realInfo", "surplusGrain", "bool", "bool", PyBool(TRUE), "not"),
     Property("OneRFIDSmartFeeder", "unit_type", 83, "realInfo", "unitType", "int", "int", PyInt(1), "get"),
     Property("OneRFIDSmartFeeder", "battery_display_type", 87, "realInfo", "batteryDisplayType", "float", "int", PyStr("percentage"), "float_str"),
     Property("OneRFIDSmartFeeder", "online", 98, "realInfo", "online", "bool", "bool", PyBool(FALSE), "bool"),
     Property("OneRFIDSmartFeeder", "running_state", 102, "realInfo", "runningState", "bool", "str", PyStr("IDLE"), "eq_running"),
     Property("OneRFIDSmartFeeder", "whether_in_sleep_mode", 106, "realInfo", "whetherInSleepMode", "bool", "bool", PyBool(FALSE), "bool"),
     Property("OneRFIDSmartFeeder", "enable_low_battery_notice", 110, "realInfo", "enableLowBatteryNotice", "bool", "bool", PyBool(FALSE), "bool"),
     Property("OneRFIDSmartFeeder", "enable_power_change_notice", 114, "realInfo", "enablePowerChangeNotice", "bool", "bool", PyBool(FALSE), "bool"),
     Property("OneRFIDSmartFeeder", "enable_grain_outlet_blocked_notice", 118, "realInfo", "enableGrainOutletBlockedNotice", "bool", "bool", PyBool(FALSE), "bool"),
     Property("OneRFIDSmartFeeder", "device_sn", 122, "realInfo", "deviceSn", "str", "str", PyStr("unknown"), "get"),
     Property("OneRFIDSmartFeeder", "mac_address", 126, "realInfo", "mac", "str", "str", PyStr("unknown"), "get"),
     Property("OneRFIDSmartFeeder", "wifi_ssid", 130, "realInfo", "wifiSsid", "str", "str", PyStr("unknown"), "get"),
     Property("OneRFIDSmartFeeder", "wifi_rssi", 134, "realInfo", "wifiRssi", "int", "int", PyInt(-100), "get"),
     Property("OneRFIDSmartFeeder", "electric_quantity", 138, "realInfo", "electricQuantity", "int", "int", PyInt(0), "get"),
     Property("OneRFIDSmartFeeder", "enable_feeding_plan", 142, "realInfo", "enableFeedingPlan", "bool", "bool", PyBool(FALSE), "get"),
     Property("OneRFIDSmartFeeder", "enable_sound", 146, "realInfo", "enableSound", "bool", "bool", PyBool(FALSE), "get"),
     Property("OneRFIDSmartFeeder", "enable_light", 150, "realInfo", "enableLight", "bool", "bool", PyBool(FALSE), "get"),
     Property("OneRFIDSmartFeeder", "vacuum_state", 154, "realInfo", "vacuumState", "bool", "bool", PyBool(FALSE), "get"),
     Property("OneRFIDSmartFeeder", "pump_air_state", 158, "realInfo", "pumpAirState", "bool", "bool", PyBool(FALSE), "get"),
     Property("OneRFIDSmartFeeder", "cover_close_speed", 162, "realInfo", "coverCloseSpeed", "str", "str", PyStr("unknown"), "get"),
     Property("OneRFIDSmartFeeder", "enable_re_grain_notice", 166, "realInfo", "enableReGrainNotice", "bool", "bool", PyBool(FALSE), "get"),
     Property("OneRFIDSmartFeeder", "child_lock_switch", 182, "realInfo", "childLockSwitch", "bool", "bool", PyBool(FALSE), "not"),
     Property("OneRFIDSmartFeeder", "close_door_time_sec", 174, "realInfo", "closeDoorTimeSec", "int", "int", PyInt(0), "get"),
     Property("OneRFIDSmartFeeder", "display_switch", 178, "realInfo", "screenDisplaySwitch", "bool", "bool", PyBool(FALSE), "bool"),
     Property("OneRFIDSmartFeeder", "remaining_desiccant", 186, "", "remainingDesiccantDays", "str", "str", PyStr("unknown"), "get"),
     Property("OneRFIDSmartFeeder", "desiccant_frequency", 191, "realInfo", "changeDesiccantFrequency", "float", "int", PyInt(0), "get"),
     Property("PolarWetFoodFeeder", "battery_state", 39, "", "batteryState", "str", "str", PyStr("unknown"), "get"),
     Property("PolarWetFoodFeeder", "battery_display_type", 43, "realInfo", "batteryDisplayType", "float", "int", PyStr("percentage"), "float_str"),
     Property("PolarWetFoodFeeder", "device_sn", 54, "", "deviceSn", "str", "str", PyStr("unknown"), "get"),
     Property("PolarWetFoodFeeder", "door_blocked", 59, "realInfo", "barnDoorError", "bool", "bool", PyBool(FALSE), "bool"),
     Property("PolarWetFoodFeeder", "electric_quantity", 63, "", "electricQuantity", "int", "int", PyInt(0), "get"),
     Property("PolarWetFoodFeeder", "feeding_plan_state", 68, "", "enableFeedingPlan", "bool", "bool", PyBool(FALSE), "bool"),
     Property("PolarWetFoodFeeder", "food_low", 73, "", "surplusGrain", "bool", "bool", PyBool(TRUE), "not"),
     Property("PolarWetFoodFeeder", "mac_address", 77, "", "mac", "str", "str", PyStr("unknown"), "get"),
     Property("PolarWetFoodFeeder", "next_feeding_day", 82, "", "nextFeedingDay", "str", "str", PyStr("unknown"), "get"),
     Property("PolarWetFoodFeeder", "next_feeding_time", 87, "", "nextFeedingTime", "str", "str", PyStr("unknown"), "time12"),
     Property("PolarWetFoodFeeder", "next_feeding_end_time", 100, "", "nextFeedingEndTime", "str", "str", PyStr("unknown"), "time12"),
     Property("PolarWetFoodFeeder", "manual_feed_id", 113, "wetList", "manualFeedId", "int", "int", PyNone, "get"),
     Property("PolarWetFoodFeeder", "online", 123, "", "online", "bool", "bool", PyBool(FALSE), "get"),
     Property("PolarWetFoodFeeder", "online_list", 128, "realInfo", "onlineList", "list", "list", PyList, "get"),
     Property("PolarWetFoodFeeder", "plate_position", 133, "realInfo", "platePosition", "int", "int", PyInt(0), "get"),
     Property("PolarWetFoodFeeder", "temperature", 138, "realInfo", "temperature", "float", "float", PyFloat(0), "fahrenheit"),
     Property("PolarWetFoodFeeder", "unit_type", 145, "realInfo", "unitType", "int", "int", PyInt(1), "get"),
     Property("PolarWetFoodFeeder", "whether_in_sleep_mode", 149, "realInfo", "whetherInSleepMode", "bool", "bool", PyBool(FALSE), "bool"),
     Property("PolarWetFoodFeeder", "enable_low_battery_notice", 153, "realInfo", "enableLowBatteryNotice", "bool", "bool", PyBool(FALSE), "bool"),
     Property("PolarWetFoodFeeder", "wifi_rssi", 157, "", "wifiRssi", "int", "int", PyInt(-100), "get"),
     Property("PolarWetFoodFeeder", "wifi_ssid", 161, "realInfo", "wifiSsid", "str", "str", PyStr("unknown"), "get")
    }

\* values a key of the raw state can hold, by type
Samples(raw) ==
    CASE raw = "bool" -> {PyBool(TRUE), PyBool(FALSE)}
      [] raw = "int" -> {PyInt(0), PyInt(MaxScalar)}
      [] raw = "float" -> {PyFloat(0), PyFloat(215)}
      [] raw = "str" -> {PyStr("abc"), PyStr("RUNNING"), PyStr("23:00")}
      [] raw = "list" -> {PyList}

\* datetime.strptime(raw_time, "%H:%M") for the time texts of Samples;
\* <<>> stands for ValueError
ParseTime(str) == IF str = "23:00" THEN <<23, 0>> ELSE <<>>
Pad2(i) == IF i < 10 THEN "0" \o ToString(i) ELSE ToString(i)
\* time_obj.strftime("%I:%M %p")
Format12(hm) ==
    Pad2(IF hm[1] % 12 = 0 THEN 12 ELSE hm[1] % 12) \o ":" \o Pad2(hm[2])
        \o (IF hm[1] < 12 THEN " AM" ELSE " PM")

\* what the body of a property makes of the value x its get call returned
Derive(via, x) ==
    CASE via = "get" -> x
      [] via = "bool" -> PyBool(Truthy(x))
      [] via = "not" -> PyBool(~Truthy(x))
      [] via = "eq_running" -> PyBool(x = PyStr("RUNNING"))
      [] via = "float_str" ->
            \* float(str(value)), 0.0 on ValueError
            IF x.t = "int" THEN PyFloat(10 * x.n)
            ELSE IF x.t = "float" THEN x
            ELSE PyFloat(0)
      [] via = "time12" ->
            IF x = PyStr("unknown") THEN x
            ELSE IF ParseTime(x.s) = <<>> THEN PyStr("Invalid time")
            ELSE PyStr(Format12(ParseTime(x.s)))
      [] via = "fahrenheit" ->
            \* round(celsius * 9 / 5 + 32, 1), in tenths
            PyFloat((x.n * 9) \div 5 + 320)

\* where the key of a property is in the raw state: "none" (neither the
\* outer mapping nor the key), "outer" (the mapping without the key) or
\* "key"; dict.get returns the default unless the key is there
Presence(p) == IF p.outer = "" THEN {"none", "key"} ELSE {"none", "outer", "key"}
PropertyValue(p, present, x) ==
    Derive(p.via, IF present = "key" THEN x ELSE p.default)

NoRead == [cls |-> "", name |-> "", present |-> "none", raw |-> PyNone, result |-> PyNone]

\* a property of a device is read
ReadProperty ==
    /\ \E p \in Properties, present \in {"none", "outer", "key"} :
        /\ present \in Presence(p)
        /\ \E x \in (IF present = "key" THEN Samples(p.raw) ELSE {PyNone}) :
            read' = [cls |-> p.cls, name |-> p.name, present |-> present,
                     raw |-> x, result |-> PropertyValue(p, present, x)]
    /\ UNCHANGED <<data, lastFrag, emitted, refreshing, now, sessVars, cacheVars, hubVars>>

(***************************************************************************)
(* The feeding-quantity sensor (sensor.py:91-114,                          *)
(* granary_smart_feeder.py:24-38, one_rfid_smart_feeder.py:41-43)          *)
(***************************************************************************)
\* round(num / den) for num >= 0; no quotient met here lies on a half
RoundDiv(num, den) == (2 * num + den) \div (2 * den)

\* GranarySmartFeeder.convert_unit: round(value / 236.588)
convert_unit(value) == RoundDiv(1000 * value, 236588)

\* today_feeding_quantity of the device, from the raw quantity
\* (granary_smart_feeder.py:24-28, one_rfid_smart_feeder.py:41-43)
today_feeding_quantity(cls, quantity) ==
    IF cls = "GranarySmartFeeder" THEN convert_unit(quantity) ELSE quantity

\* device.conversion_mode: no device class of the sources defines it
conversion_mode(cls) == "none"
\* the divisor of conversion_factor (sensor.py:109-111)
ConversionDivisor(cls) == IF conversion_mode(cls) = "1/24" THEN 24 ELSE 12

\* str(x) of a float x >= 0 that has at most two decimals, from its hundredths
DecimalText(h) ==
    ToString(h \div 100) \o "." \o
        (IF h % 10 = 0 THEN ToString((h % 100) \div 10) ELSE Pad2(h % 100))
\* the text of a number; n keeps the hundredths the text stands for
PyDecimal(h) == [t |-> "str", s |-> DecimalText(h), n |-> h]

\* native_value for the key today_feeding_quantity (sensor.py:106-114):
\* f"{round(feeding_quantity * conversion_factor, 2)}"
native_value(cls, feeding_quantity) ==
    PyDecimal(RoundDiv(100 * feeding_quantity, ConversionDivisor(cls)))

\* the feeder classes whose today_feeding_quantity is in the sources
QuantityFeeders == {"GranarySmartFeeder", "OneRFIDSmartFeeder"}
\* the raw quantities read: every 26th up to MaxQuantity, 2366 among them
Quantities == {quantity \in 0..MaxQuantity : quantity % 26 = 0}

\* the sensor's value is read for a device whose raw state holds quantity
ReadSensor ==
    /\ \E cls \in QuantityFeeders, quantity \in Quantities :
        read' = [cls |-> cls, name |-> "sensor.today_feeding_quantity",
                 present |-> "key", raw |-> PyInt(quantity),
                 result |-> native_value(cls, today_feeding_quantity(cls, quantity))]
    /\ UNCHANGED <<data, lastFrag, emitted, refreshing, now, sessVars, cacheVars, hubVars>>

(***************************************************************************)
(* Device.update_data (devices/device.py:17-38)                            *)
(***************************************************************************)
TopKeys == {"name", "realInfo"}
SubKeys == {"online", "wifiSsid"}
Scalars == 1..MaxScalar

\* a Python dict: a function on the set of its keys
EmptyDict == [k \in {} |-> 0]
DictsOver(K, V) == UNION {[S -> V] : S \in SUBSET K}

\* a JSON value of a fragment: a scalar, or a mapping of flags such as
\* {"online": true}
ScalarValue(n) == [isdict |-> FALSE, s |-> n, d |-> EmptyDict]
DictValue(m) == [isdict |-> TRUE, s |-> 0, d |-> m]
Values == {ScalarValue(n) : n \in Scalars} \cup {DictValue(m) : m \in DictsOver(SubKeys, BOOLEAN)}

\* a fragment: the (key, value) items of a dict in iteration order
Item(k, v) == [key |-> k, val |-> v]
ItemKeys(items) == {items[i].key : i \in 1..Len(items)}
ItemValue(items, k) == items[CHOOSE i \in 1..Len(items) : items[i].key = k].val
Fragments ==
    {f \in UNION {[1..n -> [key : TopKeys, val : Values]] : n \in 0..Cardinality(TopKeys)} :
        \A i, j \in 1..Len(f) : i # j => f[i].key # f[j].key}

\* d[k] = v
Put(d, k, v) == [x \in DOMAIN d \cup {k} |-> IF x = k THEN v ELSE d[x]]
\* mutant: the nested mapping is replaced instead of merged
DictMerge_Replace(a, b) == b

\* {**a, **b}
DictMerge(a, b) == [x \in DOMAIN a \cup DOMAIN b |-> IF x \in DOMAIN b THEN b[x] ELSE a[x]]

\* {**self._data.get(key, {}), **value} raises TypeError when the stored
\* value is not a mapping; the except clause then ends the loop and keeps
\* what was merged so far (device.py:36-38).
RECURSIVE update_data(_, _)
update_data(d, items) ==
    IF items = <<>> THEN d
    ELSE LET key == Head(items).key
             value == Head(items).val
         IN IF value.isdict
            THEN IF key \in DOMAIN d /\ ~d[key].isdict
                 THEN d
                 ELSE update_data(
                        Put(d, key, DictValue(DictMerge(IF key \in DOMAIN d THEN d[key].d ELSE EmptyDict,
                                                        value.d))),
                        Tail(items))
            ELSE update_data(Put(d, key, value), Tail(items))

\* whether the loop of update_data over items raises (device.py:24-30)
RECURSIVE MergeRaises(_, _)
MergeRaises(d, items) ==
    IF items = <<>> THEN FALSE
    ELSE LET key == Head(items).key
             value == Head(items).val
         IN IF value.isdict /\ key \in DOMAIN d /\ ~d[key].isdict
            THEN TRUE
            ELSE MergeRaises(update_data(d, <<Head(items)>>), Tail(items))

\* self.emit(EVENT_UPDATE) follows the loop inside the try block
\* (device.py:32-33): an exception of the loop skips it
Emitted(d, items) == IF MergeRaises(d, items) THEN 0 ELSE 1

\* who calls refresh on a device: the hub's scheduled refresh
\* (hub.py:154) and a command method (fountain.py:113)
Refreshers == {"hub", "command"}
\* no refresh called yet: fetched counts the responses received so far, so
\* that the n-th response carries the vendor's state number n; run holds
\* each call's position and the base_info it has received
NoRefreshing ==
    [fetched |-> 0, run |-> [r \in Refreshers |-> [pc |-> "idle", base_info |-> 0, exc |-> "none"]]]

\* Device.__init__ (device.py:9-15): _data = {} and update_data(payload)
InitMerge ==
    /\ lastFrag \in Fragments
    /\ data = update_data(EmptyDict, lastFrag)
    /\ emitted = Emitted(EmptyDict, lastFrag)
    /\ read = NoRead
    /\ refreshing = NoRefreshing

\* one call of update_data: by Device.refresh (device.py:53) or by a
\* variant's refresh
UpdateData ==
    \E items \in Fragments :
        /\ lastFrag' = items
        /\ data' = update_data(data, items)
        /\ emitted' = Emitted(data, items)
        /\ UNCHANGED <<read, refreshing, now, sessVars, cacheVars, hubVars>>

\* the payload of the device-list entry, the vendor's state number 0
ListPayload == <<Item("name", ScalarValue(0)), Item("online", ScalarValue(0))>>

\* Fountain.refresh is called (fountain.py:9-11, device.py:40-46): the
\* request for the base info is sent
FountainRefresh(r) ==
    /\ refreshing.run[r].pc = "idle"
    /\ refreshing' = [refreshing EXCEPT !.run[r].pc = "base_info"]
    /\ UNCHANGED <<data, lastFrag, read, emitted, now, sessVars, cacheVars, hubVars>>

\* await self.api.device_base_info returns or raises (device.py:46, 55-56):
\* the response is kept in base_info and the real info requested; an
\* exception ends Device.refresh, and Fountain.refresh goes on to its own
\* fetch (fountain.py:14)
RecvBaseInfo(r) ==
    /\ refreshing.run[r].pc = "base_info"
    /\ \/ refreshing' = [refreshing EXCEPT !.fetched = @ + 1,
                                            !.run[r].base_info = refreshing.fetched + 1,
                                            !.run[r].pc = "real_info"]
       \/ refreshing' = [refreshing EXCEPT !.run[r].pc = "realInfo"]
    /\ UNCHANGED <<data, lastFrag, read, emitted, now, sessVars, cacheVars, hubVars>>

\* await self.api.device_real_info returns or raises (device.py:47-56):
\* both fragments are merged by one update_data call, base_info being the
\* response this call received earlier
RecvRealInfo(r) ==
    /\ refreshing.run[r].pc = "real_info"
    /\ \/ LET items == <<Item("name", ScalarValue(refreshing.run[r].base_info)),
                         Item("online", ScalarValue(refreshing.fetched + 1))>>
          IN /\ refreshing' = [refreshing EXCEPT !.fetched = @ + 1, !.run[r].pc = "realInfo"]
             /\ lastFrag' = items
             /\ data' = update_data(data, items)
             /\ emitted' = Emitted(data, items)
       \/ /\ refreshing' = [refreshing EXCEPT !.run[r].pc = "realInfo"]
          /\ UNCHANGED <<data, lastFrag, emitted>>
    /\ UNCHANGED <<read, now, sessVars, cacheVars, hubVars>>

\* Fountain.refresh's own await of device_real_info returns or raises
\* (fountain.py:14-19): the response is merged under the key "realInfo";
\* an exception leaves refresh, which has no try block
RecvFountainRealInfo(r) ==
    /\ refreshing.run[r].pc = "realInfo"
    /\ \/ LET items == <<Item("realInfo",
                              DictValue([f \in {"online"} |-> refreshing.fetched + 1]))>>
          IN /\ refreshing' = [refreshing EXCEPT !.fetched = @ + 1, !.run[r].pc = "done"]
             /\ lastFrag' = items
             /\ data' = update_data(data, items)
             /\ emitted' = Emitted(data, items)
       \/ /\ refreshing' = [refreshing EXCEPT !.run[r].pc = "done",
                                               !.run[r].exc = "PetLibroAPIError"]
          /\ UNCHANGED <<data, lastFrag, emitted>>
    /\ UNCHANGED <<read, now, sessVars, cacheVars, hubVars>>

(***************************************************************************)
(* PetLibroAPI cached fetches (api.py:232-306)                             *)
(***************************************************************************)
Serials == {"SN1"}
Endpoints == {"realInfo", "getAttributeSetting", "baseInfo"}
\* f"{device_id}_realInfo" and its siblings
CacheKey(sn, ep) == <<sn, ep>>
CacheKeys == {CacheKey(sn, ep) : sn \in Serials, ep \in Endpoints}
Clock == 0..MaxTime

NoFetch == [pc |-> "idle", key |-> CacheKey("SN1", "realInfo"), t0 |-> 0]
NoCall ==
    [key |-> CacheKey("SN1", "realInfo"), at |-> 0, network |-> FALSE, data |-> NoData,
     known |-> FALSE, fresh |-> FALSE, freshData |-> NoData, exc |-> "none"]
\* the coroutines that call the cached fetch methods at the same time
Callers == {1, 2}
\* a caller that has not called yet: pc is the call's position, t0 the
\* now the call read, network tells whether it sent a request, data and
\* exc are what it returned or raised, overlapped tells whether the other
\* caller was awaiting the response for the same key when it started
NoCachedCall ==
    [pc |-> "idle", key |-> CacheKey("SN1", "realInfo"), t0 |-> 0,
     network |-> FALSE, data |-> NoData, exc |-> "none", overlapped |-> FALSE]

\* mutant: the window test includes its upper end
CacheHit_Inclusive(k, t) == k \in DOMAIN times /\ t - times[k] <= WINDOW_SECONDS

\* last_call_time and (now - last_call_time) < timedelta(seconds=10)
CacheHit(k, t) == k \in DOMAIN times /\ t - times[k] < WINDOW_SECONDS

InitCache ==
    /\ times = EmptyDict
    /\ cached = EmptyDict
    /\ fetch = NoFetch
    /\ lastOk = EmptyDict
    /\ lastCall = NoCall
    /\ inflight = [c \in Callers |-> NoCachedCall]

\* a second passes
Tick ==
    /\ now < MaxTime
    /\ now' = now + 1
    /\ UNCHANGED <<sessVars, mergeVars, cacheVars, hubVars>>

\* A cached fetch method is called (api.py:234-247): a hit returns the
\* cached response at once, a miss sends the request and awaits it.
\* lastCall records what the call did and, from lastOk, whether a successful
\* fetch of the key started less than WINDOW_SECONDS ago.
FetchBegin(sn, ep) ==
    LET k == CacheKey(sn, ep)
        hit == CacheHit(k, now)
        fresh == k \in DOMAIN lastOk /\ now < lastOk[k].at + WINDOW_SECONDS
    IN /\ fetch.pc = "idle"
       /\ lastCall' = [key |-> k, at |-> now, network |-> ~hit,
                       data |-> IF hit THEN (IF k \in DOMAIN cached THEN cached[k] ELSE NoData) ELSE NoData,
                       known |-> k \in DOMAIN lastOk,
                       fresh |-> fresh,
                       freshData |-> IF k \in DOMAIN lastOk THEN lastOk[k].data ELSE NoData,
                       exc |-> "none"]
       /\ fetch' = IF hit THEN NoFetch ELSE [pc |-> "await", key |-> k, t0 |-> now]
       /\ UNCHANGED <<now, times, cached, lastOk, inflight, sessVars, mergeVars, hubVars>>

get_device_real_info(sn) == FetchBegin(sn, "realInfo")
get_device_attribute_settings(sn) == FetchBegin(sn, "getAttributeSetting")
get_device_base_info(sn) == FetchBegin(sn, "baseInfo")

\* The awaited response arrives (api.py:249-253): timestamp and response
\* are stored under the key, with the time read when the call started.
FetchOk ==
    /\ fetch.pc = "await"
    /\ \E d \in Payloads :
        /\ times' = Put(times, fetch.key, fetch.t0)
        /\ cached' = Put(cached, fetch.key, d)
        /\ lastOk' = Put(lastOk, fetch.key, [at |-> fetch.t0, data |-> d])
        /\ lastCall' = [lastCall EXCEPT !.data = d]
    /\ fetch' = NoFetch
    /\ UNCHANGED <<now, inflight, sessVars, mergeVars, hubVars>>

\* mutant: a failed fetch stores the time of its call
FetchFail_StampsTime ==
    /\ fetch.pc = "await"
    /\ fetch' = NoFetch
    /\ times' = Put(times, fetch.key, fetch.t0)
    /\ lastCall' = [lastCall EXCEPT !.exc = "PetLibroAPIError"]
    /\ UNCHANGED <<now, cached, lastOk, inflight, sessVars, mergeVars, hubVars>>

\* The awaited request raises (api.py:254-256): PetLibroAPIError, nothing
\* is stored.
FetchFail ==
    /\ fetch.pc = "await"
    /\ fetch' = NoFetch
    /\ lastCall' = [lastCall EXCEPT !.exc = "PetLibroAPIError"]
    /\ UNCHANGED <<now, times, cached, lastOk, inflight, sessVars, mergeVars, hubVars>>

\* the other caller
Other(c) == CHOOSE d \in Callers : d # c

\* Caller c makes its call of a cached fetch method (api.py:232-247,
\* 258-272, 283-297) while the other caller may be awaiting its response: now is
\* read, and a timestamp younger than the window returns the cached
\* response, or {} when there is none; otherwise the request is sent.
CachedCall(c, sn, ep) ==
    LET k == CacheKey(sn, ep)
        hit == CacheHit(k, now)
        o == inflight[Other(c)]
    IN /\ inflight[c].pc = "idle"
       /\ inflight' = [inflight EXCEPT ![c] =
                [pc |-> IF hit THEN "done" ELSE "await",
                 key |-> k, t0 |-> now, network |-> ~hit,
                 data |-> IF hit /\ k \in DOMAIN cached THEN cached[k] ELSE NoData,
                 exc |-> "none",
                 overlapped |-> o.pc = "await" /\ o.key = k]]
       /\ UNCHANGED <<now, times, cached, fetch, lastOk, lastCall, sessVars, mergeVars, hubVars>>

\* the response caller c awaits arrives (api.py:249-253, 274-278,
\* 299-303): the now the call read and the response are stored, and the
\* response is returned
CachedReturn(c) ==
    /\ inflight[c].pc = "await"
    /\ \E d \in Payloads :
        /\ times' = Put(times, inflight[c].key, inflight[c].t0)
        /\ cached' = Put(cached, inflight[c].key, d)
        /\ inflight' = [inflight EXCEPT ![c].pc = "done", ![c].data = d]
    /\ UNCHANGED <<now, fetch, lastOk, lastCall, sessVars, mergeVars, hubVars>>

\* the request caller c awaits raises (api.py:254-256, 279-281, 304-306):
\* the exception is logged and PetLibroAPIError raised; nothing is stored
CachedRaise(c) ==
    /\ inflight[c].pc = "await"
    /\ inflight' = [inflight EXCEPT ![c].pc = "done", ![c].exc = "PetLibroAPIError"]
    /\ UNCHANGED <<now, times, cached, fetch, lastOk, lastCall, sessVars, mergeVars, hubVars>>

(***************************************************************************)
(* PetLibroHub (hub.py) and the devices' refresh (devices/)                *)
(***************************************************************************)
\* devices/__init__.py:14-21
\* mutant: the RFID feeder's name is mapped to the class it is derived from
product_name_map_Shifted ==
    [pn \in {"Granary Smart Feeder", "Granary Smart Camera Feeder",
             "One RFID Smart Feeder", "Polar Wet Food Feeder",
             "Dockstream Smart Fountain", "Dockstream Smart RFID Fountain"} |->
        CASE pn = "Granary Smart Feeder" -> "GranarySmartFeeder"
          [] pn = "Granary Smart Camera Feeder" -> "GranarySmartCameraFeeder"
          [] pn = "One RFID Smart Feeder" -> "GranarySmartFeeder"
          [] pn = "Polar Wet Food Feeder" -> "PolarWetFoodFeeder"
          [] pn = "Dockstream Smart Fountain" -> "DockstreamSmartFountain"
          [] pn = "Dockstream Smart RFID Fountain" -> "DockstreamSmartRFIDFountain"]

product_name_map ==
    [pn \in {"Granary Smart Feeder", "Granary Smart Camera Feeder", "One RFID Smart Feeder",
             "Polar Wet Food Feeder", "Dockstream Smart Fountain",
             "Dockstream Smart RFID Fountain"} |->
        CASE pn = "Granary Smart Feeder" -> "GranarySmartFeeder"
          [] pn = "Granary Smart Camera Feeder" -> "GranarySmartCameraFeeder"
          [] pn = "One RFID Smart Feeder" -> "OneRFIDSmartFeeder"
          [] pn = "Polar Wet Food Feeder" -> "PolarWetFoodFeeder"
          [] pn = "Dockstream Smart Fountain" -> "DockstreamSmartFountain"
          [] pn = "Dockstream Smart RFID Fountain" -> "DockstreamSmartRFIDFountain"]

\* a product name the table does not hold
UnsupportedProduct == "Space Smart Feeder"
ListSerials == {"SN1", "SN2"}
\* an entry of the device-list response: a dict with productName and,
\* unless the vendor left it out, deviceSn
NoSn == "-"
Entry(sn, pn) ==
    (IF sn = NoSn THEN <<>> ELSE <<Item("deviceSn", ScalarValue(sn))>>)
        \o <<Item("productName", ScalarValue(pn))>>
\* device_data.get(key, default)
EntryGet(entry, key, default) ==
    IF key \in ItemKeys(entry) THEN ItemValue(entry, key).s ELSE default
ListsOver(E) == UNION {[1..n -> E] : n \in 0..MaxList}

\* Device.serial (device.py:58-60); "None" stands for Python's None
serial(raw) == IF "deviceSn" \in DOMAIN raw THEN raw["deviceSn"].s ELSE "None"

EmptyHub ==
    [devices |-> <<>>, loaded |-> {}, last_refresh_times |-> EmptyDict, constructed |-> 0]

\* mutant: an entry is loaded again although its serial is in loaded_device_sn
RECURSIVE load_devices_NoSkip(_, _, _)
load_devices_NoSkip(h, device_list, t) ==
    IF device_list = <<>> THEN h
    ELSE LET device_data == Head(device_list)
             device_sn == EntryGet(device_data, "deviceSn", "unknown")
             device_name == EntryGet(device_data, "productName", "unknown")
             known == device_name \in DOMAIN product_name_map
         IN load_devices_NoSkip(
                [devices |-> IF known
                             THEN Append(h.devices,
                                         [id |-> h.constructed + 1,
                                          type |-> product_name_map[device_name],
                                          raw |-> update_data(EmptyDict, device_data)])
                             ELSE h.devices,
                 constructed |-> IF known THEN h.constructed + 1 ELSE h.constructed,
                 loaded |-> h.loaded \cup {device_sn},
                 last_refresh_times |-> Put(h.last_refresh_times, device_sn, t)],
                Tail(device_list), t)

\* mutant: an entry of an unsupported product ends the loop
RECURSIVE load_devices_AbortOnUnsupported(_, _, _)
load_devices_AbortOnUnsupported(h, device_list, t) ==
    IF device_list = <<>> THEN h
    ELSE LET device_data == Head(device_list)
             device_sn == EntryGet(device_data, "deviceSn", "unknown")
             device_name == EntryGet(device_data, "productName", "unknown")
         IN IF device_sn \in h.loaded
            THEN load_devices_AbortOnUnsupported(h, Tail(device_list), t)
            ELSE IF device_name \notin DOMAIN product_name_map
            THEN h
            ELSE load_devices_AbortOnUnsupported(
                    [devices |-> Append(h.devices,
                                        [id |-> h.constructed + 1,
                                         type |-> product_name_map[device_name],
                                         raw |-> update_data(EmptyDict, device_data)]),
                     constructed |-> h.constructed + 1,
                     loaded |-> h.loaded \cup {device_sn},
                     last_refresh_times |-> Put(h.last_refresh_times, device_sn, t)],
                    Tail(device_list), t)

\* the loop of load_devices (hub.py:80-101) over the entries of the list;
\* constructed counts the Device objects built so far and gives each its id
RECURSIVE load_devices(_, _, _)
load_devices(h, device_list, t) ==
    IF device_list = <<>> THEN h
    ELSE LET device_data == Head(device_list)
             device_sn == EntryGet(device_data, "deviceSn", "unknown")
             device_name == EntryGet(device_data, "productName", "unknown")
             known == device_name \in DOMAIN product_name_map
         IN IF device_sn \in h.loaded
            THEN load_devices(h, Tail(device_list), t)
            ELSE load_devices(
                    [devices |-> IF known
                                 THEN Append(h.devices,
                                             [id |-> h.constructed + 1,
                                              type |-> product_name_map[device_name],
                                              raw |-> update_data(EmptyDict, device_data)])
                                 ELSE h.devices,
                     constructed |-> IF known THEN h.constructed + 1 ELSE h.constructed,
                     loaded |-> h.loaded \cup {device_sn},
                     last_refresh_times |-> Put(h.last_refresh_times, device_sn, t)],
                    Tail(device_list), t)

\* what one network fetch of a refresh can end in
FetchErrors == {"PetLibroAPIError", "ClientError"}
\* the fetches of a try block run in order up to the first that fails:
\* failAt = 0 when none of n fails
FetchRuns(n) ==
    {[failAt |-> 0, exc |-> "none"]} \cup [failAt : 1..n, exc : FetchErrors]

\* the fragments the vendor returns for one device in one refresh, all
\* taken from one vendor-side state v
BaseFragment(v) == <<Item("name", ScalarValue(v)), Item("online", ScalarValue(v))>>
EndpointField(ep) ==
    CASE ep = "grainStatus" -> "surplusGrain"
      [] ep = "realInfo" -> "online"
      [] ep = "getAttributeSetting" -> "enableSound"
      [] ep = "wetList" -> "plate"
VariantItem(ep, v) == Item(ep, DictValue([f \in {EndpointField(ep)} |-> v = 1]))

\* the fragments a variant fetches after the base refresh, in order
\* (granary_smart_feeder.py:14, one_rfid_smart_feeder.py:19-21,
\*  polar_wet_food_feeder.py:20-22, dockstream_smart_rfid_fountain.py:20)
VariantEndpoints(type) ==
    CASE type = "GranarySmartFeeder" -> <<"grainStatus">>
      [] type = "OneRFIDSmartFeeder" -> <<"grainStatus", "realInfo", "getAttributeSetting">>
      [] type = "PolarWetFoodFeeder" -> <<"grainStatus", "realInfo", "wetList">>
      [] type = "DockstreamSmartRFIDFountain" -> <<"realInfo">>
\* the variants whose refresh wraps its body in "except PetLibroAPIError"
\* (one_rfid_smart_feeder.py:29, polar_wet_food_feeder.py:30)
CatchesApiError(type) == type \in {"OneRFIDSmartFeeder", "PolarWetFoodFeeder"}
VariantFragment(type, v) ==
    [i \in 1..Len(VariantEndpoints(type)) |-> VariantItem(VariantEndpoints(type)[i], v)]

\* the product names of the variants whose refresh is in the sources
RefreshableProducts ==
    {"Granary Smart Feeder", "One RFID Smart Feeder", "Polar Wet Food Feeder",
     "Dockstream Smart RFID Fountain"}

\* Device.refresh (device.py:40-56): both base fragments are fetched, then
\* merged in one update_data call; any exception is logged and swallowed.
DeviceRefresh(raw, v, base) ==
    IF base.failAt = 0
    THEN [raw |-> update_data(raw, BaseFragment(v)), calls |-> 2]
    ELSE [raw |-> raw, calls |-> base.failAt]

\* the place, among a variant's fetches, of the one that calls a method
\* PetLibroAPI does not define (polar_wet_food_feeder.py:22 calls
\* device_wet_feeding_plan_wet_list; api.py:324-337 has none); 0 if none
MissingFetch(type) == IF type = "PolarWetFoodFeeder" THEN 3 ELSE 0
\* how a variant's fetches end when the network would let them end as var:
\* the call of the missing method raises AttributeError before any request
VariantRun(type, var) ==
    IF MissingFetch(type) # 0 /\ (var.failAt = 0 \/ var.failAt >= MissingFetch(type))
    THEN [failAt |-> MissingFetch(type), exc |-> "AttributeError"]
    ELSE var

\* a variant's refresh: super().refresh(), then its own fetches and one
\* update_data call; exc is the exception that leaves refresh, if any,
\* calls the requests sent, varOk whether the variant's merge was reached
VariantRefresh(type, raw, v, base, var) ==
    LET b == DeviceRefresh(raw, v, base)
        run == VariantRun(type, var)
    IN
    IF run.failAt = 0
    THEN [raw |-> update_data(b.raw, VariantFragment(type, v)),
          calls |-> b.calls + Len(VariantEndpoints(type)),
          exc |-> "none", varOk |-> TRUE]
    ELSE [raw |-> b.raw,
          calls |-> b.calls + (IF run.exc = "AttributeError"
                               THEN run.failAt - 1 ELSE run.failAt),
          exc |-> IF CatchesApiError(type) /\ run.exc = "PetLibroAPIError"
                  THEN "none" ELSE run.exc,
          varOk |-> FALSE]

\* the endpoints Device.refresh requests, in order (device.py:46-47); every
\* fetch of a refresh goes through post_serial (api.py:324-337), which
\* reads no cache
BaseEndpoints == <<"baseInfo", "realInfo">>
\* the endpoints whose request one refresh sends, in order: the base
\* fetches up to the first that fails, then, whatever became of those, the
\* variant's up to the first that fails
Requested(type, base, var) ==
    LET run == VariantRun(type, var)
        nb == IF base.failAt = 0 THEN Len(BaseEndpoints) ELSE base.failAt
        nv == IF run.failAt = 0 THEN Len(VariantEndpoints(type))
              ELSE IF run.exc = "AttributeError" THEN run.failAt - 1
              ELSE run.failAt
    IN SubSeq(BaseEndpoints, 1, nb) \o SubSeq(VariantEndpoints(type), 1, nv)

\* mutant: the debounce test includes its upper end
Debounced_Inclusive(times_, sn, t) ==
    sn \in DOMAIN times_ /\ t - times_[sn] <= DEBOUNCE_SECONDS

\* hub.py:145-150: last_refresh_time and (now - last_refresh_time) < 10 s
Debounced(times_, sn, t) ==
    sn \in DOMAIN times_ /\ t - times_[sn] < DEBOUNCE_SECONDS

\* stand-ins of lastList before the first call and after a failed call;
\* neither is a list of entries
NoList == << <<Item("none", ScalarValue("none"))>> >>
ListError == << <<Item("error", ScalarValue("error"))>> >>
PendingTask ==
    [status |-> "pending", exc |-> "none", network |-> FALSE,
     v |-> 0, baseOk |-> FALSE, varOk |-> FALSE]
NoRound == [active |-> FALSE, now0 |-> 0, tasks |-> <<>>, result |-> "none"]

\* async_setup_entry not running: pc is its position, result what it
\* returned, loads the calls of load_devices it made, registered whether
\* hass.data[DOMAIN] holds a hub under the entry's id
NoSetup == [pc |-> "idle", result |-> "none", loads |-> 0, registered |-> FALSE]

\* no command method called yet: dev is the device's place in hub.devices,
\* via tells a direct call from a button press, post is how session.post
\* ended, call the exception its API method ended with, refreshes counts
\* the refreshes the command has started, exc is the exception that
\* reached the caller, pc the command's position; at and
\* prev are the times the last two refreshes started by commands began
\* (-1: none yet)
NoCmd ==
    [dev |-> 0, name |-> "none", via |-> "none", post |-> "none",
     accepted |-> FALSE, call |-> "none", refreshes |-> 0, exc |-> "none", pc |-> "idle",
     at |-> -1, prev |-> -1]

\* PetLibroHub.__init__ (hub.py:24-31)
InitHub ==
    /\ hub = EmptyHub
    /\ lastList = NoList
    /\ same = FALSE
    /\ round = NoRound
    /\ setup = NoSetup
    /\ cmd = NoCmd

\* the entries a device list can hold
ListEntries ==
    {Entry(sn, pn) : sn \in {"SN1", NoSn},
                     pn \in {"One RFID Smart Feeder", UnsupportedProduct}}
    \cup {Entry("SN2", "Granary Smart Feeder")}

\* load_devices (hub.py:70-105) with a device list from the API
LoadDevices ==
    \E device_list \in ListsOver(ListEntries) :
        /\ hub' = load_devices(hub, device_list, now)
        /\ same' = (device_list = lastList)
        /\ lastList' = device_list
        /\ UNCHANGED <<now, round, setup, cmd, sessVars, mergeVars, cacheVars>>

\* load_devices when list_devices raises: logged, nothing loaded
\* (hub.py:104-105)
LoadDevicesError ==
    /\ same' = (lastList = ListError)
    /\ lastList' = ListError
    /\ UNCHANGED <<hub, now, round, setup, cmd, sessVars, mergeVars, cacheVars>>

\* the device lists the refresh machine starts from: one device, with or
\* without a deviceSn, or two devices, each of a variant whose refresh is
\* in the sources
HubLists ==
    {<<Entry(sn, pn)>> : sn \in {"SN1", NoSn}, pn \in RefreshableProducts}
    \cup {<<Entry("SN1", p), Entry("SN2", q)>> : p, q \in RefreshableProducts}

\* the hub once async_setup_entry has run load_devices, which it does
\* once and before the coordinator's first refresh (__init__.py:111-115)
InitLoadedHub ==
    /\ \E device_list \in HubLists :
        /\ hub = load_devices(EmptyHub, device_list, now)
        /\ lastList = device_list
    /\ same = FALSE
    /\ round = NoRound
    /\ setup = NoSetup
    /\ cmd = NoCmd

\* refresh_devices is called (hub.py:107-123): without devices it returns
\* False; otherwise now is read once and one task per device is gathered
StartRound ==
    /\ lastList # NoList
    /\ ~round.active
    /\ IF hub.devices = <<>>
       THEN round' = [NoRound EXCEPT !.now0 = now, !.result = "False"]
       ELSE round' = [active |-> TRUE, now0 |-> now,
                      tasks |-> [i \in 1..Len(hub.devices) |-> PendingTask],
                      result |-> "none"]
    /\ UNCHANGED <<hub, lastList, same, now, setup, cmd, sessVars, mergeVars, cacheVars>>

\* _refresh_device_if_needed for device i (hub.py:142-161), with the
\* device's refresh and the outcome of its fetches
RunTask(i) ==
    /\ round.active
    /\ round.tasks[i].status = "pending"
    /\ LET device == hub.devices[i]
           device_sn == serial(device.raw)
       IN IF Debounced(hub.last_refresh_times, device_sn, round.now0)
          THEN /\ round' = [round EXCEPT !.tasks[i] =
                                [PendingTask EXCEPT !.status = "skipped"]]
               /\ UNCHANGED hub
          ELSE \E v \in Scalars, base \in FetchRuns(2),
                  var \in FetchRuns(Len(VariantEndpoints(device.type))) :
                LET r == VariantRefresh(device.type, device.raw, v, base, var) IN
                /\ round' = [round EXCEPT !.tasks[i] =
                                [status |-> IF r.exc = "none" THEN "done" ELSE "raised",
                                 exc |-> r.exc, network |-> r.calls > 0, v |-> v,
                                 baseOk |-> base.failAt = 0, varOk |-> r.varOk]]
                /\ hub' = [hub EXCEPT
                            !.devices[i].raw = r.raw,
                            !.last_refresh_times =
                                IF r.exc = "none" THEN Put(@, device_sn, round.now0) ELSE @]
    /\ UNCHANGED <<lastList, same, now, setup, cmd, sessVars, mergeVars, cacheVars>>

\* the base fragments as the vendor returns them, with the deviceSn field
\* its payload may carry (NoSn: the payload has none)
BaseFragmentWithSn(v, sn) ==
    (IF sn = NoSn THEN <<>> ELSE <<Item("deviceSn", ScalarValue(sn))>>) \o BaseFragment(v)

\* refresh called on device i outside refresh_devices, as the command
\* methods do after their call (one_rfid_smart_feeder.py:198), every fetch
\* succeeding: the base fragments are merged (device.py:40-53), then the
\* variant's own (one_rfid_smart_feeder.py:19-28) unless one of its fetches
\* calls a method that is missing
DirectRefresh(i) ==
    /\ \E v \in Scalars, sn \in ListSerials \cup {NoSn} :
        hub' = [hub EXCEPT !.devices[i].raw =
                    IF MissingFetch(hub.devices[i].type) # 0
                    THEN update_data(@, BaseFragmentWithSn(v, sn))
                    ELSE update_data(update_data(@, BaseFragmentWithSn(v, sn)),
                                     VariantFragment(hub.devices[i].type, v))]
    /\ UNCHANGED <<lastList, same, round, now, setup, cmd, sessVars, mergeVars, cacheVars>>

\* the suspension points of a variant's refresh: the two base fetches
\* (device.py:46-47), then the variant's own fetches
SuspensionPoints(type) ==
    1..(2 + Len(VariantEndpoints(type)) - (IF MissingFetch(type) # 0 THEN 1 ELSE 0))

\* refresh of device i cancelled at suspension point k.  CancelledError is
\* not an Exception, so neither device.py:55 nor the variants' except
\* clauses nor hub.py:159 catch it.  Cancelled at a base fetch, nothing
\* was merged (device.py:53 not reached); cancelled at a variant fetch,
\* super().refresh() has returned, with the base fragments merged unless a
\* base fetch failed, and the variant's update_data is not reached
\* (one_rfid_smart_feeder.py:16-28, dockstream_smart_rfid_fountain.py:17-23).
CancelledRefresh(i) ==
    /\ \E v \in Scalars, base \in FetchRuns(2),
          k \in SuspensionPoints(hub.devices[i].type) :
        hub' = [hub EXCEPT !.devices[i].raw =
                    IF k <= 2 THEN @ ELSE DeviceRefresh(@, v, base).raw]
    /\ UNCHANGED <<lastList, same, round, now, setup, cmd, sessVars, mergeVars, cacheVars>>

\* how session.post ends for a command (api.py:46-109): it returns the
\* data of the envelope (an int, a mapping or None), or raises.  A return
\* with accepted FALSE is the retry after a re-login whose envelope
\* reported a failure and which request returned unchecked (api.py:101-104).
PostOutcome(exc, value, accepted) == [exc |-> exc, value |-> value, accepted |-> accepted]
PostOutcomes ==
    {PostOutcome("none", value, TRUE) : value \in {"int", "dict", "None"}}
    \cup {PostOutcome("none", "None", FALSE)}
    \cup {PostOutcome(exc, "None", FALSE) : exc \in {"ClientError", "PetLibroAPIError"}}

\* the exception a method of PetLibroAPI ends with ("none": it returns),
\* by the shape of its body:
\*   "plain"    awaits session.post and nothing else (api.py:340-345)
\*   "reraise"  the same inside try/except Exception: raise (api.py:420-432)
\*   "status"   reads response.status or calls response.raise_for_status on
\*              what post returned, which is the envelope's data and has
\*              neither; wraps ClientError (api.py:347-361)
\*   "feed"     returns an int as it is and calls response.json() on anything
\*              else; wraps ClientError (api.py:434-466)
\*   "badcall"  is called with one argument too few
\*              (one_rfid_smart_feeder.py:197, api.py:392)
\*   "missing"  is not defined by PetLibroAPI (one_rfid_smart_feeder.py:375)
ApiCall(api, p) ==
    CASE api \in {"plain", "reraise"} -> p.exc
      [] api = "status" ->
            IF p.exc = "ClientError" THEN "PetLibroAPIError"
            ELSE IF p.exc # "none" THEN p.exc
            ELSE "AttributeError"
      [] api = "feed" ->
            IF p.exc = "ClientError" THEN "PetLibroAPIError"
            ELSE IF p.exc # "none" THEN p.exc
            ELSE IF p.value = "int" THEN "none"
            ELSE "AttributeError"
      [] api = "badcall" -> "TypeError"
      [] api = "missing" -> "AttributeError"
\* the API methods that end before they send anything
SendsNothing(api) == api \in {"badcall", "missing"}

\* a command method: the class and line that define it, the shape of the
\* API method it calls, whether its body wraps ClientError in
\* PetLibroAPIError, and whether a button is bound to it (button.py:86-104)
CommandRow(cls, name, line, api, wraps, button) ==
    [cls |-> cls, name |-> name, line |-> line, api |-> api, wraps |-> wraps,
     button |-> button]
Commands ==
    {CommandRow("OneRFIDSmartFeeder", "set_desiccant_frequency", 194, "badcall", TRUE, FALSE),
     CommandRow("OneRFIDSmartFeeder", "set_sound_level", 209, "reraise", TRUE, FALSE),
     CommandRow("OneRFIDSmartFeeder", "set_child_lock", 229, "status", TRUE, FALSE),
     CommandRow("OneRFIDSmartFeeder", "set_light_enable", 239, "status", TRUE, FALSE),
     CommandRow("OneRFIDSmartFeeder", "set_light_switch", 249, "plain", TRUE, FALSE),
     CommandRow("OneRFIDSmartFeeder", "set_sound_enable", 259, "status", TRUE, FALSE),
     CommandRow("OneRFIDSmartFeeder", "set_sound_switch", 269, "plain", TRUE, FALSE),
     CommandRow("OneRFIDSmartFeeder", "set_manual_feed", 279, "feed", TRUE, TRUE),
     CommandRow("OneRFIDSmartFeeder", "set_feeding_plan", 289, "plain", TRUE, TRUE),
     CommandRow("OneRFIDSmartFeeder", "set_manual_lid_open", 299, "plain", TRUE, FALSE),
     CommandRow("OneRFIDSmartFeeder", "set_display_on", 309, "plain", TRUE, FALSE),
     CommandRow("OneRFIDSmartFeeder", "set_display_off", 319, "plain", TRUE, FALSE),
     CommandRow("OneRFIDSmartFeeder", "set_sound_on", 329, "plain", TRUE, FALSE),
     CommandRow("OneRFIDSmartFeeder", "set_sound_off", 339, "plain", TRUE, FALSE),
     CommandRow("OneRFIDSmartFeeder", "set_desiccant_reset", 348, "feed", TRUE, FALSE),
     CommandRow("OneRFIDSmartFeeder", "set_lid_speed", 372, "missing", TRUE, FALSE),
     CommandRow("OneRFIDSmartFeeder", "set_lid_mode", 394, "missing", TRUE, FALSE),
     CommandRow("PolarWetFoodFeeder", "set_manual_feed_now", 164, "missing", TRUE, FALSE),
     CommandRow("PolarWetFoodFeeder", "rotate_food_bowl", 178, "missing", TRUE, FALSE),
     CommandRow("PolarWetFoodFeeder", "feed_audio", 188, "missing", TRUE, FALSE),
     CommandRow("DockstreamSmartRFIDFountain", "set_light_switch", 122, "plain", FALSE, FALSE),
     CommandRow("DockstreamSmartRFIDFountain", "set_sound_switch", 127, "plain", FALSE, FALSE),
     CommandRow("DockstreamSmartRFIDFountain", "set_manual_cleaning", 132, "missing", FALSE, FALSE)}

\* the exception that leaves a command method whose body ended with exc
\* (one_rfid_smart_feeder.py:284-286; the fountain's methods have no try)
Wrapped(c, exc) == IF c.wraps /\ exc = "ClientError" THEN "PetLibroAPIError" ELSE exc

\* the post outcomes a call of c can meet: none when it sends nothing
PostsOf(c) == IF SendsNothing(c.api) THEN {PostOutcome("none", "None", FALSE)} ELSE PostOutcomes
\* the command methods of a class, and those a button is bound to
CommandsOf(cls) == {c \in Commands : c.cls = cls}
ButtonsOf(cls) == {c \in CommandsOf(cls) : c.button}
\* what cmd records of the post of command c
PostSeen(c, p) ==
    IF SendsNothing(c.api) THEN "none" ELSE IF p.exc = "none" THEN "return" ELSE p.exc
\* the command cmd records
Running == CHOOSE c \in Commands : c.cls = hub.devices[cmd.dev].type /\ c.name = cmd.name
\* the exception that reaches the caller: async_press logs every
\* exception and drops it (button.py:133-136)
Reaches(via, c, exc) == IF via = "button" THEN "none" ELSE Wrapped(c, exc)

\* mutant: the command goes on to its refresh whatever its API call did
CommandCall_AlwaysRefresh(i, via, c) ==
    /\ cmd.pc = "idle"
    /\ ~round.active
    /\ \E p \in PostsOf(c) :
        LET a == ApiCall(c.api, p) IN
        cmd' = [dev |-> i, name |-> c.name, via |-> via,
                post |-> PostSeen(c, p), accepted |-> p.accepted, call |-> a,
                refreshes |-> 0, exc |-> Reaches(via, c, a),
                pc |-> "refresh",
                at |-> cmd.at, prev |-> cmd.prev]
    /\ UNCHANGED <<hub, lastList, same, round, setup, now, sessVars, mergeVars, cacheVars>>

\* the API call of command c on device i, called as a method or by a
\* button (one_rfid_smart_feeder.py:282, button.py:129): if it returns,
\* the command goes on to its refresh
CommandCall(i, via, c) ==
    /\ cmd.pc = "idle"
    /\ ~round.active
    /\ \E p \in PostsOf(c) :
        LET a == ApiCall(c.api, p) IN
        cmd' = [dev |-> i, name |-> c.name, via |-> via,
                post |-> PostSeen(c, p), accepted |-> p.accepted, call |-> a,
                refreshes |-> 0, exc |-> Reaches(via, c, a),
                pc |-> IF a = "none" THEN "refresh" ELSE "idle",
                at |-> cmd.at, prev |-> cmd.prev]
    /\ UNCHANGED <<hub, lastList, same, round, setup, now, sessVars, mergeVars, cacheVars>>

\* a command method is called on device i
Command(i) == \E c \in CommandsOf(hub.devices[i].type) : CommandCall(i, "method", c)

\* a button of device i is pressed (button.py:121-136)
async_press(i) == \E c \in ButtonsOf(hub.devices[i].type) : CommandCall(i, "button", c)

\* await self.refresh() of the running command
\* (one_rfid_smart_feeder.py:283): an exception ends the command, and the
\* press; otherwise the command returns and a press goes on to its own
\* refresh
CommandRefresh ==
    /\ cmd.pc = "refresh"
    /\ LET i == cmd.dev
           device == hub.devices[i]
       IN \E v \in Scalars, base \in FetchRuns(2),
             var \in FetchRuns(Len(VariantEndpoints(device.type))) :
            LET r == VariantRefresh(device.type, device.raw, v, base, var) IN
            /\ hub' = [hub EXCEPT !.devices[i].raw = r.raw]
            /\ cmd' = [cmd EXCEPT
                        !.refreshes = @ + 1, !.at = now, !.prev = cmd.at,
                        !.exc = Reaches(cmd.via, Running, r.exc),
                        !.pc = IF r.exc = "none" /\ cmd.via = "button"
                               THEN "again" ELSE "idle"]
    /\ UNCHANGED <<lastList, same, round, setup, now, sessVars, mergeVars, cacheVars>>

\* await self.device.refresh() of the press (button.py:130)
PressRefresh ==
    /\ cmd.pc = "again"
    /\ LET i == cmd.dev
           device == hub.devices[i]
       IN \E v \in Scalars, base \in FetchRuns(2),
             var \in FetchRuns(Len(VariantEndpoints(device.type))) :
            LET r == VariantRefresh(device.type, device.raw, v, base, var) IN
            /\ hub' = [hub EXCEPT !.devices[i].raw = r.raw]
            /\ cmd' = [cmd EXCEPT !.refreshes = @ + 1, !.at = now, !.prev = cmd.at,
                                   !.pc = "idle"]
    /\ UNCHANGED <<lastList, same, round, setup, now, sessVars, mergeVars, cacheVars>>

\* a second passes while no command is running
Wait == cmd.pc = "idle" /\ Tick

\* asyncio.gather(..., return_exceptions=True) hands a task's exception
\* back as its result, so none reaches the except clauses of
\* refresh_devices (hub.py:123, 135-140)
GatherRaises(tasks) == FALSE

\* mutant: gather re-raises the first exception and the rest is abandoned
FinishRound_AbortOnError ==
    /\ round.active
    /\ \/ \A i \in 1..Len(round.tasks) : round.tasks[i].status # "pending"
       \/ \E i \in 1..Len(round.tasks) : round.tasks[i].status = "raised"
    /\ round' = [round EXCEPT !.active = FALSE,
                              !.result = IF \E i \in 1..Len(round.tasks) :
                                                round.tasks[i].status = "raised"
                                         THEN "UpdateFailed" ELSE "True"]
    /\ UNCHANGED <<hub, lastList, same, now, setup, cmd, sessVars, mergeVars, cacheVars>>

\* gather returns once every task has ended; the results are logged and
\* refresh_devices returns True (hub.py:123-133)
FinishRound ==
    /\ round.active
    /\ \A i \in 1..Len(round.tasks) : round.tasks[i].status # "pending"
    /\ round' = [round EXCEPT !.active = FALSE,
                              !.result = IF GatherRaises(round.tasks)
                                         THEN "UpdateFailed" ELSE "True"]
    /\ UNCHANGED <<hub, lastList, same, now, setup, cmd, sessVars, mergeVars, cacheVars>>

\* async_setup_entry is called (__init__.py:94-109): without email or
\* password it returns False; otherwise the hub is constructed and stored
\* in hass.data[DOMAIN] under the entry's id
async_setup_entry ==
    /\ setup.pc = "start"
    /\ \E credentials \in BOOLEAN :
        setup' = IF credentials
                 THEN [setup EXCEPT !.pc = "load", !.registered = TRUE]
                 ELSE [setup EXCEPT !.pc = "done", !.result = "False"]
    /\ UNCHANGED <<hub, lastList, same, round, now, cmd, sessVars, mergeVars, cacheVars>>

\* mutant: setup goes on to the first refresh without loading the devices
SetupLoadDevices_Skipped ==
    /\ setup.pc = "load"
    /\ setup' = [setup EXCEPT !.pc = "first_refresh"]
    /\ UNCHANGED <<hub, lastList, same, round, now, cmd, sessVars, mergeVars, cacheVars>>

\* await hub.load_devices() (__init__.py:112, hub.py:70-102)
SetupLoadDevices ==
    /\ setup.pc = "load"
    /\ \E device_list \in ListsOver(ListEntries) :
        /\ hub' = load_devices(hub, device_list, now)
        /\ same' = (device_list = lastList)
        /\ lastList' = device_list
    /\ setup' = [setup EXCEPT !.pc = "first_refresh", !.loads = @ + 1]
    /\ UNCHANGED <<round, now, cmd, sessVars, mergeVars, cacheVars>>

\* await hub.load_devices() when list_devices raises: load_devices logs
\* the exception and returns (hub.py:104-105)
SetupLoadDevicesError ==
    /\ setup.pc = "load"
    /\ same' = (lastList = ListError)
    /\ lastList' = ListError
    /\ setup' = [setup EXCEPT !.pc = "first_refresh", !.loads = @ + 1]
    /\ UNCHANGED <<hub, round, now, cmd, sessVars, mergeVars, cacheVars>>

\* the coordinator's first refresh calls refresh_devices (__init__.py:115,
\* hub.py:65)
SetupFirstRefresh ==
    /\ setup.pc = "first_refresh"
    /\ round = NoRound
    /\ StartRound

\* the first refresh has ended (__init__.py:115-125): UpdateFailed makes
\* async_config_entry_first_refresh raise, which the except clause turns
\* into False, as it does an exception of the platform setups; a refresh
\* that returned, whatever it returned, lets setup go on to return True
SetupReturn ==
    /\ setup.pc = "first_refresh"
    /\ ~round.active
    /\ round.result # "none"
    /\ \E forwarded \in BOOLEAN :
        setup' = [setup EXCEPT
                    !.pc = "done",
                    !.result = IF round.result # "UpdateFailed" /\ forwarded
                               THEN "True" ELSE "False"]
    /\ UNCHANGED <<hub, lastList, same, round, now, cmd, sessVars, mergeVars, cacheVars>>

\* the coordinator calls refresh_devices again after a setup that
\* succeeded (hub.py:61-67)
PeriodicRefresh ==
    /\ setup.pc = "done"
    /\ setup.result = "True"
    /\ StartRound

\* async_unload_entry (__init__.py:128-146), called by the host for an
\* entry that is set up: the hub is popped from hass.data[DOMAIN], then
\* the platforms are unloaded and, when that succeeded, hub.async_unload
\* clears the devices and the refresh times (hub.py:175-182)
async_unload_entry ==
    /\ setup.pc = "done"
    /\ setup.result = "True"
    /\ ~round.active
    /\ setup' = [setup EXCEPT !.pc = "unloaded", !.registered = FALSE]
    /\ \E unload_ok \in BOOLEAN :
        hub' = IF unload_ok
               THEN [hub EXCEPT !.devices = <<>>, !.last_refresh_times = EmptyDict]
               ELSE hub
    /\ UNCHANGED <<lastList, same, round, now, cmd, sessVars, mergeVars, cacheVars>>

(***************************************************************************)
(* Specifications                                                          *)
(***************************************************************************)
\* the state of a machine that a specification does not run
IdleSession ==
    token = NoToken /\ req = [r \in Reqs |-> IdleReq] /\ config_entry = EntryFor(NoToken)
IdleMerge == data = EmptyDict /\ lastFrag = <<>> /\ read = NoRead /\ emitted = 0 /\ refreshing = NoRefreshing
IdleCache == InitCache
IdleHub == InitHub

InitSessionSpec == now = 0 /\ InitSession /\ IdleMerge /\ IdleCache /\ IdleHub
NextSession ==
    \/ \E r \in Reqs : Call(r)
    \/ \E r \in Reqs : RecvFirst(r)
    \/ \E r \in Reqs : RecvLogin(r)
    \/ \E r \in Reqs : RecvRetry(r)
SpecSession == InitSessionSpec /\ [][NextSession]_vars

\* two calls of request on one session, each started once: the first by
\* login or by any other method, the second by logout or any other method
PairReqs == {1, 2}
InitPairSpec ==
    /\ now = 0
    /\ token \in {NoToken} \cup Tokens
    /\ req = [r \in PairReqs |-> IdleReq]
    /\ config_entry = EntryFor(token)
    /\ IdleMerge /\ IdleCache /\ IdleHub
CallOnce(r) == req[r].pc = "idle" /\ Call(r)
LoginOnce == req[1].pc = "idle" /\ login(1)
LogoutOnce == req[2].pc = "idle" /\ logout(2)
NextPair ==
    \/ \E r \in PairReqs : CallOnce(r)
    \/ LoginOnce
    \/ LogoutOnce
    \/ \E r \in PairReqs : RecvFirst(r)
    \/ \E r \in PairReqs : RecvLogin(r)
    \/ \E r \in PairReqs : RecvRetry(r)
SpecPair == InitPairSpec /\ [][NextPair]_vars

InitMergeSpec == now = 0 /\ InitMerge /\ IdleSession /\ IdleCache /\ IdleHub
NextMerge == UpdateData
SpecMerge == InitMergeSpec /\ [][NextMerge]_vars

InitCacheSpec == now = 0 /\ InitCache /\ IdleSession /\ IdleMerge /\ IdleHub
NextCache ==
    \/ Tick
    \/ \E sn \in Serials : get_device_real_info(sn)
    \/ \E sn \in Serials : get_device_attribute_settings(sn)
    \/ \E sn \in Serials : get_device_base_info(sn)
    \/ FetchOk
    \/ FetchFail
SpecCache == InitCacheSpec /\ [][NextCache]_vars

\* two callers of the cached fetch methods, their calls overlapping
InitOverlapSpec == now = 0 /\ InitCache /\ IdleSession /\ IdleMerge /\ IdleHub
NextOverlap ==
    \/ Tick
    \/ \E c \in Callers, sn \in Serials, ep \in Endpoints : CachedCall(c, sn, ep)
    \/ \E c \in Callers : CachedReturn(c)
    \/ \E c \in Callers : CachedRaise(c)
SpecOverlap == InitOverlapSpec /\ [][NextOverlap]_vars

\* a scheduled refresh and a refresh started by a command, on one fountain
InitRefreshingSpec ==
    /\ now = 0
    /\ data = update_data(EmptyDict, ListPayload)
    /\ lastFrag = ListPayload
    /\ emitted = Emitted(EmptyDict, ListPayload)
    /\ read = NoRead
    /\ refreshing = NoRefreshing
    /\ IdleSession /\ IdleCache /\ IdleHub
NextRefreshing ==
    \/ \E r \in Refreshers : FountainRefresh(r)
    \/ \E r \in Refreshers : RecvBaseInfo(r)
    \/ \E r \in Refreshers : RecvRealInfo(r)
    \/ \E r \in Refreshers : RecvFountainRealInfo(r)
SpecRefreshing == InitRefreshingSpec /\ [][NextRefreshing]_vars

InitLoadSpec == now = 0 /\ InitHub /\ IdleSession /\ IdleMerge /\ IdleCache
NextLoad ==
    \/ LoadDevices
    \/ LoadDevicesError
SpecLoad == InitLoadSpec /\ [][NextLoad]_vars

InitHubSpec == now = 0 /\ InitLoadedHub /\ IdleSession /\ IdleMerge /\ IdleCache
NextHub ==
    \/ Tick
    \/ StartRound
    \/ \E i \in 1..Len(hub.devices) : RunTask(i)
    \/ FinishRound
SpecHub == InitHubSpec /\ [][NextHub]_vars

InitSerialSpec == now = 0 /\ InitLoadedHub /\ IdleSession /\ IdleMerge /\ IdleCache
NextSerial == \E i \in 1..Len(hub.devices) : DirectRefresh(i)
SpecSerial == InitSerialSpec /\ [][NextSerial]_vars

\* refreshes of the loaded devices, each cancelled at some suspension point
InitCancelSpec == now = 0 /\ InitLoadedHub /\ IdleSession /\ IdleMerge /\ IdleCache
NextCancel == \E i \in 1..Len(hub.devices) : CancelledRefresh(i)
SpecCancel == InitCancelSpec /\ [][NextCancel]_vars

\* async_setup_entry from its call on, then the coordinator's refreshes
InitSetupSpec ==
    /\ now = 0
    /\ hub = EmptyHub
    /\ lastList = NoList
    /\ same = FALSE
    /\ round = NoRound
    /\ setup = [NoSetup EXCEPT !.pc = "start"]
    /\ cmd = NoCmd
    /\ IdleSession /\ IdleMerge /\ IdleCache
NextSetup ==
    \/ async_setup_entry
    \/ SetupLoadDevices
    \/ SetupLoadDevicesError
    \/ SetupFirstRefresh
    \/ \E i \in 1..Len(hub.devices) : RunTask(i)
    \/ FinishRound
    \/ SetupReturn
    \/ PeriodicRefresh
    \/ async_unload_entry
SpecSetup == InitSetupSpec /\ [][NextSetup]_vars

\* the hub of one device a command or a press acts on
CommandHub(products) ==
    /\ \E pn \in products :
        /\ hub = load_devices(EmptyHub, <<Entry("SN1", pn)>>, now)
        /\ lastList = <<Entry("SN1", pn)>>
    /\ same = FALSE
    /\ round = NoRound
    /\ setup = NoSetup
    /\ cmd = NoCmd

\* the command methods of the variants, called directly or by a button
InitCommandSpec ==
    /\ now = 0
    /\ CommandHub(RefreshableProducts)
    /\ IdleSession /\ IdleMerge /\ IdleCache
NextCommand ==
    \/ \E i \in 1..Len(hub.devices) : Command(i)
    \/ \E i \in 1..Len(hub.devices) : async_press(i)
    \/ CommandRefresh
    \/ PressRefresh
SpecCommand == InitCommandSpec /\ [][NextCommand]_vars

\* presses of the buttons of an RFID feeder as time passes
InitPressSpec ==
    /\ now = 0
    /\ CommandHub({"One RFID Smart Feeder"})
    /\ IdleSession /\ IdleMerge /\ IdleCache
NextPress ==
    \/ Wait
    \/ \E i \in 1..Len(hub.devices) : async_press(i)
    \/ CommandRefresh
    \/ PressRefresh
SpecPress == InitPressSpec /\ [][NextPress]_vars

\* reads of the derived properties of a device
InitPropsSpec ==
    /\ now = 0
    /\ data = EmptyDict /\ lastFrag = <<>> /\ read = NoRead /\ emitted = 0 /\ refreshing = NoRefreshing
    /\ IdleSession /\ IdleCache /\ IdleHub
NextProps == ReadProperty
SpecProps == InitPropsSpec /\ [][NextProps]_vars

\* reads of the feeding-quantity sensor
InitSensorSpec ==
    /\ now = 0
    /\ data = EmptyDict /\ lastFrag = <<>> /\ read = NoRead /\ emitted = 0 /\ refreshing = NoRefreshing
    /\ IdleSession /\ IdleCache /\ IdleHub
NextSensor == ReadSensor
SpecSensor == InitSensorSpec /\ [][NextSensor]_vars

(***************************************************************************)
(* Claims                                                                  *)
(***************************************************************************)

\* ---- C1 (SpecMerge) ----
\* old, items, new: the raw state before a merge, the merged fragment and
\* the raw state after it.  Every key of old is a key of new; a top-level
\* key absent from the fragment keeps its value; where old and the fragment
\* both hold a mapping under a top-level key, every nested key absent from
\* the fragment's mapping keeps its value.
Preserved(old, items, new) ==
    \A k \in DOMAIN old :
        /\ k \in DOMAIN new
        /\ k \notin ItemKeys(items) => new[k] = old[k]
        /\ (k \in ItemKeys(items) /\ old[k].isdict /\ ItemValue(items, k).isdict) =>
                /\ new[k].isdict
                /\ \A j \in DOMAIN old[k].d \ DOMAIN ItemValue(items, k).d :
                        j \in DOMAIN new[k].d /\ new[k].d[j] = old[k].d[j]

\* C1: every update_data call keeps the fields that were in the raw state
\* and are absent from the merged fragment, at the top level and inside a
\* nested mapping merged under the same top-level key.
C1_MergePreserves == [][Preserved(data, lastFrag', data')]_vars

\* a merge of {"realInfo": {"wifiSsid": ..}} into a raw state that already
\* held realInfo.online and name: both are still there
C1_Witness ==
    /\ ItemKeys(lastFrag) = {"realInfo"}
    /\ ItemValue(lastFrag, "realInfo").isdict
    /\ DOMAIN ItemValue(lastFrag, "realInfo").d = {"wifiSsid"}
    /\ DOMAIN data = {"name", "realInfo"}
    /\ data["realInfo"].isdict
    /\ DOMAIN data["realInfo"].d = {"online", "wifiSsid"}

\* ---- C2 (SpecSession) ----
\* the first response of call r was HTTP 200 with envelope code NOT_YET_LOGIN
FirstNotAuth(r) ==
    /\ req[r].first.kind = "http"
    /\ req[r].first.status = HTTP_OK
    /\ req[r].first.json
    /\ req[r].first.code = NOT_YET_LOGIN

\* C2 as stated: a call whose first response carries NOT_YET_LOGIN ends
\* after exactly one re-login and exactly two sends.
C2_Original ==
    \A r \in Reqs :
        (req[r].pc = "done" /\ FirstNotAuth(r)) =>
            (req[r].logins = 1 /\ req[r].sends = 2)

\* C2 amended: a call never sends more than twice nor logs in more than
\* once; a call whose first response is HTTP 200 with NOT_YET_LOGIN makes
\* exactly one re-login attempt, and sends the request once more exactly
\* when that re-login succeeds; when it fails the call raises
\* PetLibroAPIError without a retry.
C2_OneReloginAtMostOneRetry ==
    \A r \in Reqs :
        /\ req[r].sends <= 2
        /\ req[r].logins <= 1
        /\ (req[r].pc = "done" /\ FirstNotAuth(r)) =>
            /\ req[r].logins = 1
            /\ req[r].login => req[r].sends = 2
            /\ ~req[r].login => (req[r].sends = 1 /\ req[r].result = Raise("PetLibroAPIError"))

\* a call that logged in again, retried and got NOT_YET_LOGIN once more
C2_Witness ==
    \E r \in Reqs :
        /\ req[r].pc = "done"
        /\ FirstNotAuth(r)
        /\ req[r].login
        /\ req[r].sends = 2
        /\ req[r].retry.kind = "http"
        /\ req[r].retry.json
        /\ req[r].retry.code = NOT_YET_LOGIN

\* ---- C3 (SpecSession) ----
\* C3: when the retry sent after a successful re-login is answered with
\* NOT_YET_LOGIN again, request raises PetLibroAPIError.
C3_SecondNotAuthRaises ==
    \A r \in Reqs :
        (/\ req[r].pc = "done"
         /\ req[r].login
         /\ req[r].retry.kind = "http"
         /\ req[r].retry.status = HTTP_OK
         /\ req[r].retry.json
         /\ req[r].retry.code = NOT_YET_LOGIN) =>
            req[r].result = Raise("PetLibroAPIError")

\* ---- C4 (SpecSession) ----
\* the exception request raises for a generic non-zero application code
GenericCodeException ==
    FirstStep([kind |-> "http", status |-> HTTP_OK, json |-> TRUE,
               code |-> OTHER_CODE, data |-> NoData]).exc

\* C4: a response with the invalid-credentials code causes no re-login and
\* no retry, and raises an exception of another type than the one raised
\* for a generic non-zero code.
C4_InvalidAuthDistinct ==
    \A r \in Reqs :
        (/\ req[r].pc = "done"
         /\ req[r].first.kind = "http"
         /\ req[r].first.status = HTTP_OK
         /\ req[r].first.json
         /\ req[r].first.code = INVALID_AUTH) =>
            /\ req[r].logins = 0
            /\ req[r].sends = 1
            /\ req[r].result.kind = "raise"
            /\ req[r].result.exc # GenericCodeException

\* ---- C5 (SpecSession) ----
\* C5: a connection error, a status other than 200, an unparsable body and
\* a non-zero envelope code (other than NOT_YET_LOGIN, which is retried)
\* each make request raise PetLibroAPIError and no other exception.
C5_FailuresRaiseApiError ==
    \A r \in Reqs :
        (/\ req[r].pc = "done"
         /\ \/ req[r].first.kind = "transport"
            \/ req[r].first.kind = "http" /\ req[r].first.status # HTTP_OK
            \/ req[r].first.kind = "http" /\ ~req[r].first.json
            \/ req[r].first.kind = "http" /\ req[r].first.json
                    /\ req[r].first.code \notin {CODE_OK, NOT_YET_LOGIN}) =>
            req[r].result = Raise("PetLibroAPIError")

\* ---- C6 (SpecCache) ----
\* C6: a cached fetch that starts less than WINDOW_SECONDS after the start
\* of the last successful fetch of the same serial and endpoint makes no
\* network call and returns that fetch's data; one that starts
\* WINDOW_SECONDS or more after it makes a network call.
C6_CacheWindow ==
    /\ lastCall.fresh => (~lastCall.network /\ lastCall.data = lastCall.freshData)
    /\ (lastCall.known /\ ~lastCall.fresh) => lastCall.network

\* a fetch answered from the cache in the last second of the window, after
\* the clock has passed the window of another endpoint's entry
C6_Witness ==
    /\ lastCall.fresh
    /\ ~lastCall.network
    /\ lastCall.at = lastOk[lastCall.key].at + WINDOW_SECONDS - 1
    /\ lastCall.data = lastOk[lastCall.key].data
    /\ fetch.pc = "idle"

\* ---- C7 (SpecHub) ----
\* task i of the running refresh_devices call ends in this step
TaskEnds(i) ==
    /\ round.active
    /\ round'.active
    /\ i \in 1..Len(round.tasks)
    /\ round.tasks[i].status = "pending"
    /\ round'.tasks[i].status # "pending"

\* no time is recorded for the serial of device i, or DEBOUNCE_SECONDS or
\* more lie between the recorded time and the start of the running call
RefreshDue(i) ==
    LET sn == serial(hub.devices[i].raw) IN
    \/ sn \notin DOMAIN hub.last_refresh_times
    \/ round.now0 - hub.last_refresh_times[sn] >= DEBOUNCE_SECONDS

\* C7: in a refresh_devices call a device's refresh is invoked exactly when
\* no last-refresh time is recorded for its serial or at least 10 seconds
\* lie between that time and the start of the call; otherwise the device is
\* skipped with no network call and its raw state and time are left alone.
C7_DebounceIff ==
    [][\A i \in 1..Len(hub.devices) :
          TaskEnds(i) =>
            /\ (round'.tasks[i].status # "skipped") <=> RefreshDue(i)
            /\ round'.tasks[i].status = "skipped" =>
                    (~round'.tasks[i].network /\ hub' = hub)]_vars

\* a call that starts less than 10 seconds after device 1 was refreshed and
\* 10 seconds or more after device 2 was: device 1 is skipped, device 2 is
\* refreshed over the network
C7_Witness ==
    /\ Len(round.tasks) = 2
    /\ round.tasks[1].status = "skipped"
    /\ round.tasks[2].status = "done"
    /\ round.tasks[2].network
    /\ round.now0 - hub.last_refresh_times[serial(hub.devices[1].raw)] < DEBOUNCE_SECONDS
    /\ hub.last_refresh_times[serial(hub.devices[2].raw)] = round.now0
    /\ round.now0 >= DEBOUNCE_SECONDS

\* ---- C8 (SpecHub) ----
\* the raw state of device i holds the fragments fetched from vendor state v
BaseMerged(i, v) ==
    LET raw == hub.devices[i].raw IN
    /\ {"name", "online"} \subseteq DOMAIN raw
    /\ raw["name"] = ScalarValue(v)
    /\ raw["online"] = ScalarValue(v)
VariantMerged(i, v) ==
    LET raw == hub.devices[i].raw
        eps == VariantEndpoints(hub.devices[i].type) IN
    \A n \in 1..Len(eps) :
        /\ eps[n] \in DOMAIN raw
        /\ raw[eps[n]].isdict
        /\ EndpointField(eps[n]) \in DOMAIN raw[eps[n]].d
        /\ raw[eps[n]].d[EndpointField(eps[n])] = (v = 1)
SomeTaskRaised ==
    \E i \in 1..Len(round.tasks) : round.tasks[i].status = "raised"
RoundFinished == ~round.active /\ round.tasks # <<>> /\ round.result # "none"

\* C8: when a refresh_devices call has returned, every device's task has
\* ended, and every device whose fetches succeeded has the fetched
\* fragments in its raw state, whether or not the fetch of another device
\* raised a transport or API error.
C8_OthersStillRefreshed ==
    RoundFinished =>
        \A i \in 1..Len(round.tasks) :
            /\ round.tasks[i].status # "pending"
            /\ round.tasks[i].baseOk => BaseMerged(i, round.tasks[i].v)
            /\ round.tasks[i].varOk => VariantMerged(i, round.tasks[i].v)

\* a finished call in which the fetch of device 1 raised a transport error
\* and device 2 holds its newly fetched base and variant fragments
C8_Witness ==
    /\ RoundFinished
    /\ Len(round.tasks) = 2
    /\ round.tasks[1].status = "raised"
    /\ round.tasks[1].exc = "ClientError"
    /\ round.tasks[2].status = "done"
    /\ round.tasks[2].baseOk
    /\ round.tasks[2].varOk
    /\ BaseMerged(2, round.tasks[2].v)
    /\ VariantMerged(2, round.tasks[2].v)

\* ---- C9 (SpecHub) ----
\* C9: a refresh_devices call in which the refresh of at least one device
\* failed with an API or transport error ends in UpdateFailed, and a call in
\* which every refresh succeeded returns True.
C9_FailureReported ==
    RoundFinished =>
        /\ SomeTaskRaised => round.result = "UpdateFailed"
        /\ ~SomeTaskRaised => round.result = "True"

\* ---- C10 (SpecLoad) ----
\* C10: a load_devices call with the device-list response of the call
\* before it leaves hub.devices as it was: the same device objects in the
\* same order, and no Device object is constructed.
C10_LoadIdempotent ==
    [][(same' /\ lastList' # ListError) =>
            /\ hub'.devices = hub.devices
            /\ hub'.constructed = hub.constructed]_vars

\* load_devices has run twice on a list of two entries, one of them of a
\* supported product, and the hub holds the one device of the first call
C10_Witness ==
    /\ same
    /\ lastList # ListError
    /\ Len(lastList) = 2
    /\ Len(hub.devices) = 1
    /\ hub.constructed = 1
    /\ hub.devices[1].id = 1

\* ---- C11 (SpecLoad) ----
\* the step is a load_devices call that got a device list
LoadStep == lastList' \notin {NoList, ListError}
EntrySn(entry) == EntryGet(entry, "deviceSn", "unknown")
EntryName(entry) == EntryGet(entry, "productName", "unknown")
Supported(entry) == EntryName(entry) \in DOMAIN product_name_map
\* h holds a device built from this entry, of the class the table names
LoadedFrom(h, entry) ==
    \E n \in 1..Len(h.devices) :
        /\ h.devices[n].raw = update_data(EmptyDict, entry)
        /\ h.devices[n].type = product_name_map[EntryName(entry)]
\* entry j of the list is the first of its serial and the serial was not
\* in loaded_device_sn when the call began
Fresh(h, list, j) ==
    /\ EntrySn(list[j]) \notin h.loaded
    /\ \A k \in 1..(j - 1) : EntrySn(list[k]) # EntrySn(list[j])

\* C11 as stated: after a load, no device comes from an unsupported entry
\* and every supported entry that follows an unsupported one is loaded.
C11_Original ==
    [][LoadStep =>
        \A i \in 1..Len(lastList') :
            ~Supported(lastList'[i]) =>
                /\ \A n \in 1..Len(hub'.devices) :
                        hub'.devices[n].raw # update_data(EmptyDict, lastList'[i])
                /\ \A j \in (i + 1)..Len(lastList') :
                        Supported(lastList'[j]) => LoadedFrom(hub', lastList'[j])]_vars

\* C11 amended: an unsupported entry yields no device and does not end the
\* loop: every entry's serial is marked loaded, and every supported entry
\* that follows it is loaded unless its serial was loaded before or is the
\* serial of an earlier entry of the list (the unsupported one included).
C11_UnsupportedSkipped ==
    [][LoadStep =>
        /\ \A n \in 1..Len(hub'.devices) :
                hub'.devices[n].raw["productName"].s \in DOMAIN product_name_map
        /\ \A i \in 1..Len(lastList') :
            /\ EntrySn(lastList'[i]) \in hub'.loaded
            /\ ~Supported(lastList'[i]) =>
                \A j \in (i + 1)..Len(lastList') :
                    (Supported(lastList'[j]) /\ Fresh(hub, lastList', j)) =>
                        LoadedFrom(hub', lastList'[j])]_vars

\* a list whose first entry is unsupported and whose second is a supported
\* product with another serial: the hub holds the second only
C11_Witness ==
    /\ lastList \notin {NoList, ListError}
    /\ Len(lastList) = 2
    /\ ~Supported(lastList[1])
    /\ Supported(lastList[2])
    /\ EntrySn(lastList[1]) = "SN1"
    /\ EntrySn(lastList[2]) = "SN2"
    /\ Len(hub.devices) = 1
    /\ serial(hub.devices[1].raw) = "SN2"
    /\ hub.loaded = {"SN1", "SN2"}

\* ---- C12 (SpecLoad) ----
\* the indices of the supported entries of the list that the call loads
FreshSupported(h, list) ==
    {j \in 1..Len(list) : Supported(list[j]) /\ Fresh(h, list, j)}

\* C12: a load adds one device for each entry of a supported product whose
\* deviceSn was not loaded before, and nothing else; for an entry that
\* carries a deviceSn, exactly one device of the hub has that serial and it
\* is of the class product_name_map gives for the entry's productName.
C12_SupportedLoadedOnce ==
    [][LoadStep =>
        /\ Len(hub'.devices) = Len(hub.devices) + Cardinality(FreshSupported(hub, lastList'))
        /\ SubSeq(hub'.devices, 1, Len(hub.devices)) = hub.devices
        /\ \A j \in FreshSupported(hub, lastList') :
            "deviceSn" \in ItemKeys(lastList'[j]) =>
                /\ Cardinality({n \in 1..Len(hub'.devices) :
                        serial(hub'.devices[n].raw) = EntrySn(lastList'[j])}) = 1
                /\ \E n \in (Len(hub.devices) + 1)..Len(hub'.devices) :
                        /\ serial(hub'.devices[n].raw) = EntrySn(lastList'[j])
                        /\ hub'.devices[n].type = product_name_map[EntryName(lastList'[j])]
                        /\ hub'.devices[n].type =
                                (CASE EntryName(lastList'[j]) = "One RFID Smart Feeder"
                                        -> "OneRFIDSmartFeeder"
                                   [] EntryName(lastList'[j]) = "Granary Smart Feeder"
                                        -> "GranarySmartFeeder"
                                   [] OTHER -> hub'.devices[n].type)]_vars

\* the scenario of the claim: one entry, One RFID Smart Feeder with SN1
C12_Witness ==
    /\ lastList = <<Entry("SN1", "One RFID Smart Feeder")>>
    /\ Len(hub.devices) = 1
    /\ hub.devices[1].type = "OneRFIDSmartFeeder"
    /\ serial(hub.devices[1].raw) = "SN1"
    /\ hub.constructed = 1

\* ---- C13 (SpecPair) ----
\* the calling method of request r ends in this step
OpEnds(r) == req[r].pc # "done" /\ req'[r].pc = "done"
\* request r is sent for the first time in this step
FirstSend(r) == req[r].pc # "await_first" /\ req'[r].pc = "await_first"
\* a login, re-login or logout stores a token in this step
TokenStored ==
    \E r \in DOMAIN req :
        \/ OpEnds(r) /\ req'[r].op \in {"login", "logout"} /\ req'[r].opResult.kind = "return"
        \/ req[r].pc = "await_login" /\ req'[r].pc = "await_retry"

\* C13: when login ends with token T the session token is T; every request
\* carries the session token of the moment it is sent; and the session
\* token changes only when a login, a re-login or a logout completes.
C13_LoginTokenCarried ==
    [][/\ \A r \in DOMAIN req :
            /\ (OpEnds(r) /\ req'[r].op = "login" /\ req'[r].opResult.kind = "return") =>
                    token' = req'[r].opResult.data
            /\ FirstSend(r) => (req'[r].hdr = token /\ token' = token)
       /\ token' # token => TokenStored]_vars

\* login replaced the token by the one in its response, and a request
\* started afterwards carries that token
C13_Witness ==
    /\ req[1].op = "login"
    /\ req[1].pc = "done"
    /\ req[1].opResult.kind = "return"
    /\ req[1].logins = 0
    /\ req[1].tok0 # req[1].opResult.data
    /\ token = req[1].opResult.data
    /\ req[2].op = "call"
    /\ req[2].pc = "await_first"
    /\ req[2].tok0 = token
    /\ req[2].hdr = token

\* ---- C14 (SpecPair) ----
\* the re-login of request r ends in this step, with or without a token
ReloginSucceeds(r) == req[r].pc = "await_login" /\ req'[r].pc = "await_retry"
ReloginFails(r) == req[r].pc = "await_login" /\ req'[r].pc = "done"
\* login, alone on the session, has raised
LoginAloneRaised ==
    /\ req[2].pc = "idle"
    /\ req[1].pc = "done"
    /\ req[1].op = "login"
    /\ req[1].opResult.kind = "raise"

\* C14 as stated: a login that raises leaves the session token as it was
\* when login was called.
C14_Original == LoginAloneRaised => token = req[1].tok0

\* C14 amended, the steps: a re-login that succeeds leaves the session
\* token equal to the token of its response and one that raises leaves the
\* token untouched; the step in which login returns stores the returned
\* token and the step in which login raises stores nothing.
C14_StoreOnlyOnSuccess ==
    [][\A r \in DOMAIN req :
        /\ ReloginSucceeds(r) => (token' = req'[r].hdr /\ token' \in Tokens)
        /\ ReloginFails(r) =>
                (token' = token /\ req'[r].opResult = Raise("PetLibroAPIError"))
        /\ (OpEnds(r) /\ req'[r].op = "login") =>
                IF req'[r].opResult.kind = "return"
                THEN token' = req'[r].opResult.data
                ELSE token' = token]_vars

\* C14 amended, the outcome: a login that raises leaves the token it found,
\* unless its own request was answered NOT_YET_LOGIN and the re-login that
\* followed succeeded: then the token is the one that re-login stored.
C14_LoginRaisedToken ==
    LoginAloneRaised =>
        token = (IF req[1].login THEN req[1].hdr ELSE req[1].tok0)

\* C14 amended: a login or re-login stores a token only in the step in
\* which it succeeds, and a login that raises leaves the token it found or
\* the token of a re-login that succeeded inside it.
C14_TokenNeverHalfUpdated == C14_StoreOnlyOnSuccess /\ []C14_LoginRaisedToken

\* login's request was answered NOT_YET_LOGIN, the re-login stored a new
\* token and the retried login request brought no token: login has raised
C14_Witness ==
    /\ LoginAloneRaised
    /\ req[1].login
    /\ req[1].sends = 2
    /\ req[1].retry.kind = "http"
    /\ req[1].retry.data = NoData
    /\ token = req[1].hdr
    /\ token # req[1].tok0

\* ---- C15 (SpecPair) ----
\* C15: when a request answered NOT_YET_LOGIN sends its retry, it has made
\* its own re-login and the retry carries the session token of that
\* moment, whatever another request of the session is doing.
C15_RetryCarriesCurrentToken ==
    [][\A r \in DOMAIN req :
        ReloginSucceeds(r) =>
            /\ req'[r].hdr = token'
            /\ req'[r].logins = 1
            /\ req'[r].sends = 2]_vars

\* both requests were answered NOT_YET_LOGIN while the other was in flight;
\* the first logged in and sent its retry with token 1, then the second
\* logged in and sent its retry with token 2
C15_Witness ==
    /\ \A r \in PairReqs :
        /\ req[r].op = "call"
        /\ FirstNotAuth(r)
        /\ req[r].pc = "await_retry"
        /\ req[r].logins = 1
    /\ req[1].hdr = 1
    /\ req[2].hdr = 2
    /\ token = 2

\* ---- C16 (SpecSerial) ----
\* C16: the serial of every device is the serial it had when it was
\* constructed from its entry of the device list, whatever was merged since.
C16_SerialNeverChanges ==
    \A i \in 1..Len(hub.devices) :
        serial(hub.devices[i].raw) = serial(update_data(EmptyDict, lastList[i]))

\* ---- C17 (SpecHub) ----
\* the base fetches of a refresh that both succeed
BaseOk == [failAt |-> 0, exc |-> "none"]
\* the first k fragments a variant fetched are in raw, as fetched from v
FetchedMerged(type, raw, v, k) ==
    \A n \in 1..k :
        LET ep == VariantEndpoints(type)[n] IN
        /\ ep \in DOMAIN raw
        /\ raw[ep].isdict
        /\ EndpointField(ep) \in DOMAIN raw[ep].d
        /\ raw[ep].d[EndpointField(ep)] = (v = 1)

\* C17: a task whose base fetches succeeded and whose variant fetch failed
\* has not raised; and however one optional fetch of that device's refresh
\* fails, refresh does not raise and the fragments fetched before the
\* failing one are merged.
C17_OptionalFailureTolerated ==
    \A i \in 1..Len(round.tasks) :
        (/\ round.tasks[i].status \in {"done", "raised"}
         /\ round.tasks[i].baseOk
         /\ ~round.tasks[i].varOk) =>
            /\ round.tasks[i].status = "done"
            /\ LET type == hub.devices[i].type
                   raw == hub.devices[i].raw
               IN \A v \in Scalars, var \in FetchRuns(Len(VariantEndpoints(type))) :
                    var.failAt >= 1 =>
                        LET r == VariantRefresh(type, raw, v, BaseOk, var) IN
                        /\ r.exc = "none"
                        /\ FetchedMerged(type, r.raw, v, var.failAt - 1)

\* ---- C18 (SpecHub) ----
\* C18: a task whose base fetch failed has raised, merged no variant
\* fragment, and left no refresh time of this call for its device.
C18_RequiredFailureFailsRefresh ==
    \A i \in 1..Len(round.tasks) :
        (round.tasks[i].status \in {"done", "raised"} /\ ~round.tasks[i].baseOk) =>
            /\ round.tasks[i].status = "raised"
            /\ ~round.tasks[i].varOk
            /\ LET sn == serial(hub.devices[i].raw) IN
               sn \in DOMAIN hub.last_refresh_times =>
                    hub.last_refresh_times[sn] # round.now0

\* ---- C19 (SpecCancel) ----
\* C19: a refresh that is cancelled leaves the raw state of every device
\* as it was when the refresh started.
C19_CancelLeavesRaw ==
    [][\A i \in 1..Len(hub.devices) : hub'.devices[i].raw = hub.devices[i].raw]_vars

\* ---- C20 (SpecPair) ----
\* C20: when a re-login succeeds, the token the hub would read from the
\* config entry at its next start is the new session token.
C20_ReloginTokenPersisted ==
    [][\A r \in PairReqs :
        ReloginSucceeds(r) => HubStartToken(config_entry') = token']_vars

\* ---- C21 (SpecSession) ----
\* a response that request rejects for its application code alone
GenericFailures ==
    {resp \in Responses : /\ resp.kind = "http"
                          /\ resp.json
                          /\ resp.status = HTTP_OK
                          /\ resp.code \notin {CODE_OK, NOT_YET_LOGIN}}
\* a call that ended because its re-login failed
ReloginFailed(r) ==
    /\ req[r].pc = "done"
    /\ FirstNotAuth(r)
    /\ ~req[r].login
\* C21: the exception a call ends with when its re-login failed is of
\* another type than the exception request raises for a non-zero
\* application code.
C21_ReloginFailureDistinct ==
    \A r \in Reqs :
        ReloginFailed(r) =>
            /\ req[r].result.kind = "raise"
            /\ \A resp \in GenericFailures :
                req[r].result.exc # FirstStep(resp).exc

\* ---- C22 (SpecSetup) ----
\* C22: a setup that has ended after its device-list call raised has
\* returned False.
C22_DiscoveryFailureFailsSetup ==
    (setup.pc = "done" /\ lastList = ListError) => setup.result = "False"

\* ---- C23 (SpecProps) ----
\* the property that was read last
ReadRow == CHOOSE p \in Properties : p.cls = read.cls /\ p.name = read.name
\* C23: a property read while its key is missing from the raw state has
\* not raised and has returned the default of its type: 0 for a number,
\* "unknown" for a string, False for door_blocked and food_low.
C23_MissingKeyDefaults ==
    (read.name # "" /\ read.present # "key") =>
        /\ read.result.t # "raise"
        /\ ReadRow.kind \in {"int", "float"} =>
                (read.result.t \in {"int", "float"} /\ read.result.n = 0)
        /\ ReadRow.kind = "str" => read.result = PyStr("unknown")
        /\ read.name \in {"door_blocked", "food_low"} => read.result = PyBool(FALSE)

\* ---- C24 (SpecSensor) ----
\* C24: the value the feeding-quantity sensor shows is the raw quantity
\* divided by 236.588 and rounded to the nearest integer (so 10 for 2366),
\* the conversion being applied once.
C24_QuantityInCups ==
    read.name = "sensor.today_feeding_quantity" =>
        /\ read.result.n = 100 * RoundDiv(1000 * read.raw.n, 236588)
        /\ read.raw.n = 2366 => read.result.n = 100 * 10

\* C25: two network refreshes of one device start at least ten seconds
\* apart, whoever starts them.  at and prev are the starts of the last two
\* refreshes that commands and button presses started on the device.
C25_RefreshesTenSecondsApart ==
    cmd.prev >= 0 => cmd.at - cmd.prev >= DEBOUNCE_SECONDS

\* ---- C26 (SpecHub) ----
\* C26: in the refresh of a device whose fetches all succeeded, no vendor
\* endpoint was requested over the network twice.
C26_EndpointOncePerRefresh ==
    \A i \in 1..Len(round.tasks) :
        (round.tasks[i].status = "done" /\ round.tasks[i].baseOk /\ round.tasks[i].varOk) =>
            LET sent == Requested(hub.devices[i].type, BaseOk, BaseOk) IN
            \A m, n \in 1..Len(sent) : m # n => sent[m] # sent[n]

\* ---- C27 (SpecCommand) ----
\* a command starts: its API call is made
CommandStarts == cmd.pc = "idle" /\ cmd' # cmd
\* the raw state of some device changes
RawChanges ==
    \E i \in 1..Len(hub.devices) : hub'.devices[i].raw # hub.devices[i].raw

\* C27: the step that makes a command's API call leaves the raw state of
\* every device as it was; the raw state changes only in a step that is a
\* refresh of the running command; and a command whose API call raised has
\* ended without starting a refresh.
C27_CommandsLeaveRaw ==
    [][/\ CommandStarts => (hub' = hub /\ cmd'.refreshes = 0)
       /\ RawChanges => (cmd.pc # "idle" /\ cmd'.refreshes = cmd.refreshes + 1)
       /\ cmd'.call # "none" => (cmd'.pc = "idle" /\ cmd'.refreshes = 0)]_vars
\* a command whose post raised a transport error has ended, and another
\* command's refresh had written the raw state before it
C27_Witness ==
    /\ cmd.name = "set_feeding_plan"
    /\ cmd.post = "ClientError"
    /\ cmd.call # "none"
    /\ cmd.pc = "idle"
    /\ cmd.refreshes = 0
    /\ cmd.at >= 0

\* ---- C28 (SpecCommand) ----
\* C28: a command method whose post met a transport failure ended with
\* PetLibroAPIError reaching its caller.
C28_TransportFailureWrapped ==
    (cmd.via = "method" /\ cmd.post = "ClientError") => cmd.exc = "PetLibroAPIError"

\* ---- C29 (SpecSetup) ----
\* the coordinator calls refresh_devices
RefreshStarts == ~round.active /\ round' # round

\* C29: load_devices is never called a second time; once setup has passed
\* the call it has been made exactly once; and every call of
\* refresh_devices, the first included, comes after it.
C29_LoadOnceBeforeRefresh ==
    /\ [](setup.loads <= 1)
    /\ []((setup.pc = "first_refresh" \/ (setup.pc = "done" /\ setup.result = "True"))
            => setup.loads = 1)
    /\ [][RefreshStarts => (setup.loads = 1 /\ setup.pc \in {"first_refresh", "done"})]_vars
\* setup has returned True after loading a device, and a later refresh of
\* the coordinator is running
C29_Witness ==
    /\ setup.pc = "done"
    /\ setup.result = "True"
    /\ setup.loads = 1
    /\ hub.devices # <<>>
    /\ round.active

\* ---- C30 (SpecHub) ----
\* C30: in a refresh that fetched and merged its variant fragments, the
\* base fragments were fetched and merged before them, and the variant's
\* merge left the fields of the base merge as that merge wrote them.
C30_BaseBeforeVariant ==
    \A i \in 1..Len(round.tasks) :
        (round.tasks[i].status = "done" /\ round.tasks[i].varOk) =>
            /\ round.tasks[i].baseOk
            /\ BaseMerged(i, round.tasks[i].v)
\* the second half alone: after a refresh whose base and variant merges
\* both ran, the fields of the base merge hold what it wrote
C30_VariantKeepsBase ==
    \A i \in 1..Len(round.tasks) :
        (round.tasks[i].status = "done" /\ round.tasks[i].baseOk /\ round.tasks[i].varOk) =>
            BaseMerged(i, round.tasks[i].v) /\ VariantMerged(i, round.tasks[i].v)

\* ---- C31 (SpecHub) ----
\* the step is the refresh of device i in the running refresh_devices call
TaskRuns(i) ==
    /\ round.active /\ round'.active
    /\ i \in 1..Len(round.tasks)
    /\ round.tasks[i].status = "pending"
    /\ round'.tasks[i].status \in {"done", "raised"}
\* the refresh fetched or merged less than it set out to
TaskFailed(t) == ~t.baseOk \/ ~t.varOk

\* C31: a task ends once in a refresh_devices call, and a refresh in which
\* a fetch failed leaves the recorded refresh times as they were, so that
\* the next call does not skip the device.
C31_FailedRefreshNotRecorded ==
    [][\A i \in 1..Len(round.tasks) :
        /\ (round.active /\ round.tasks[i].status # "pending" /\ round'.active)
                => round'.tasks[i] = round.tasks[i]
        /\ (TaskRuns(i) /\ TaskFailed(round'.tasks[i]))
                => hub'.last_refresh_times = hub.last_refresh_times]_vars

\* ---- C36 (SpecHub) ----
\* C36: a step that changes the recorded refresh times is the refresh of a
\* device whose base fragments were fetched and merged in that step.
C36_TimeAdvancedByBaseMerge ==
    [][hub'.last_refresh_times # hub.last_refresh_times =>
        \E i \in 1..Len(round.tasks) :
            /\ TaskRuns(i)
            /\ round'.tasks[i].baseOk
            /\ LET raw == hub'.devices[i].raw IN
                /\ {"name", "online"} \subseteq DOMAIN raw
                /\ raw["name"] = ScalarValue(round'.tasks[i].v)
                /\ raw["online"] = ScalarValue(round'.tasks[i].v)]_vars

\* ---- C32 (SpecMerge) ----
\* C32: an update_data call that changed the raw state emitted exactly one
\* change notification.
C32_MergeNotifiesOnce == [][data' # data => emitted' = 1]_vars

PayloadSource(r) == IF req[r].retry.kind # "none" THEN req[r].retry ELSE req[r].first

\* C34: a call of request that returned took its payload from a response
\* with HTTP status 200 and envelope code 0.
C34_ReturnsOnlyOnSuccess ==
    \A r \in Reqs :
        (req[r].pc = "done" /\ req[r].result.kind = "return") =>
            /\ PayloadSource(r).kind = "http"
            /\ PayloadSource(r).status = HTTP_OK
            /\ PayloadSource(r).code = CODE_OK

\* ---- C35 (SpecSetup) ----
\* setup has run load_devices and its first refresh has not returned yet
AfterLoad == setup.pc = "first_refresh" /\ lastList \notin {NoList, ListError}
\* C35: after load_devices every loaded device has a last-refresh time
\* recorded for its serial, equal to the time of the load; the refresh
\* that follows within 10 seconds skips every device without a network
\* call and leaves every raw state as load_devices built it.
C35_FirstRefreshSkipsAll ==
    /\ [](AfterLoad =>
            \A i \in 1..Len(hub.devices) :
                LET sn == serial(hub.devices[i].raw) IN
                /\ sn \in DOMAIN hub.last_refresh_times
                /\ hub.last_refresh_times[sn] = now)
    /\ [][\A i \in 1..Len(hub.devices) :
            (AfterLoad /\ TaskEnds(i)) =>
                /\ round'.tasks[i].status = "skipped"
                /\ ~round'.tasks[i].network
                /\ hub' = hub]_vars

\* ---- C38 (SpecOverlap) ----
\* C38: a call of a cached fetch method that starts while another call for
\* the same serial and endpoint is awaiting its response sends no request
\* of its own, and when both have returned they returned the same data.
C38_OverlapSharesFetch ==
    \A c \in Callers :
        inflight[c].overlapped =>
            /\ ~inflight[c].network
            /\ (/\ inflight[c].pc = "done" /\ inflight[c].exc = "none"
                /\ inflight[Other(c)].pc = "done" /\ inflight[Other(c)].exc = "none")
                    => inflight[c].data = inflight[Other(c)].data

\* ---- C37 (SpecCache) ----
\* the cached fetch in progress ends with an exception in this step
FetchRaises == fetch.pc = "await" /\ fetch'.pc = "idle" /\ lastCall'.exc # "none"
\* a cached fetch method is called in this step
FetchStarts == fetch.pc = "idle" /\ lastCall' # lastCall
\* C37: a cached fetch whose request fails raises PetLibroAPIError and
\* leaves every timestamp and every cached response as they were; the
\* next call for the same key, made when no successful fetch of the key
\* started within the window before it, sends a request.
C37_FailureStoresNothing ==
    [][/\ FetchRaises =>
            /\ lastCall'.exc = "PetLibroAPIError"
            /\ times' = times
            /\ cached' = cached
       /\ (/\ FetchStarts
           /\ lastCall.exc = "PetLibroAPIError"
           /\ lastCall'.key = lastCall.key
           /\ ~lastCall'.fresh) => lastCall'.network]_vars
\* a fetch failed ten seconds or more after the successful fetch of the
\* same key, whose timestamp and response are still the stored ones
C37_Witness ==
    /\ fetch.pc = "idle"
    /\ lastCall.exc = "PetLibroAPIError"
    /\ lastCall.known
    /\ lastCall.key \in DOMAIN times
    /\ times[lastCall.key] = lastOk[lastCall.key].at
    /\ cached[lastCall.key] = lastOk[lastCall.key].data
    /\ lastCall.at >= times[lastCall.key] + WINDOW_SECONDS

\* ---- C39 (SpecRefreshing) ----
\* the number of the fetch whose fragment the raw state d holds for the
\* base info, the real info and the nested "realInfo" mapping
MergedFetch(d) ==
    [ep \in {"base_info", "real_info", "realInfo"} |->
        CASE ep = "base_info" -> d["name"].s
          [] ep = "real_info" -> d["online"].s
          [] ep = "realInfo" -> IF "realInfo" \in DOMAIN d THEN d["realInfo"].d["online"] ELSE 0]
\* C39: while two refreshes of one device overlap, a merge never replaces
\* the fragment of an endpoint by one that was fetched before it.
C39_RawNeverRegresses ==
    [][\A ep \in DOMAIN MergedFetch(data) :
            MergedFetch(data')[ep] >= MergedFetch(data)[ep]]_vars

\* ---- C40 (SpecSetup) ----
\* C40: hass.data[DOMAIN] holds a hub for the entry only while
\* async_setup_entry is running or after it returned True and before the
\* entry is unloaded; once it has returned False no hub is registered.
C40_NoHubAfterFailedSetup ==
    setup.registered =>
        \/ setup.pc \in {"load", "first_refresh"}
        \/ setup.pc = "done" /\ setup.result = "True"

=============================================================================
